---------------------------- MODULE Spec2Model ----------------------------
(***************************************************************************)
(* Galaxy Defender: a state-machine model of the four implementations of   *)
(* the game that the repository holds.                                     *)
(*                                                                         *)
(*   "timer"   src/game.js 1-322      start screen, spawn timer, movement   *)
(*                                    scaled by the frame delta             *)
(*   "pooled"  src/game.js 323-897    menu, object pools, Date.now() clock  *)
(*   "basic"   src/unnamed/part_000   no start screen, Date.now() clock     *)
(*   "fx"      src/unnamed/part_001   start screen, particles, circular hit *)
(*                                    test, spawn timer                     *)
(*                                                                         *)
(* Units.  Lengths are tenths of a pixel, times are milliseconds,           *)
(* speedMultiplier / gameSpeed / currentSpeed are tenths, spawnRate is in   *)
(* thousandths, Math.random() draws are hundredths (0..99).  With the draws *)
(* and frame deltas the model uses, every product below is a whole number   *)
(* of these units, so \div loses nothing; IEEE rounding is not modelled.    *)
(***************************************************************************)
EXTENDS Integers, Sequences, FiniteSets, TLC

VARIABLES
    variant,    \* which implementation runs; fixed by Init
    game,       \* the fields of the GalaxyDefender instance
    ui,         \* what the game-over panel shows while it is shown
    probe       \* what the last tick or button handler did

vars == <<variant, game, ui, probe>>

----------------------------------------------------------------------------
(* Bounds of the exploration *)

\* playing time explored per round, in ms, in the play scenario
MaxPlayTime == 4000
\* entities alive at once (a tick that would exceed it is not explored)
MaxObjects == 4
\* playing time explored per round, in ms, in the pace scenario
MaxPaceTime == 80000
\* playing time explored per round, in ms, in the fall scenario of the
\* variants that spawn at random
MaxFallTime == 1000

----------------------------------------------------------------------------
(* Program constants *)

PlayerSize == 40
ObjectSize == 35
SpawnY == -40
OffscreenMargin == 50
PlayerBottomOffset == 80
DifficultyInterval == 10000
StarPoints == 50
TimerCanvasWidth == 800
TimerCanvasHeight == 600

Px(n) == n * 10

Max(a, b) == IF a >= b THEN a ELSE b
Min(a, b) == IF a <= b THEN a ELSE b

\* Object.keys / Object.entries order of objectTypes
TypeOrder == <<"star", "asteroid", "ufo">>

\* the probe of a handler that has done nothing yet
\* handler and from: the handler and the state it found; scoreBefore: the score
\* a tick found; overCalls: the gameOver() calls; afterOver: the collisions
\* handled after the first of them; spawned, evicted, collected, steps: the
\* entities added, dropped below the canvas and collected, and the difficulty
\* steps applied; late: the entities that were already further than their own
\* size below the canvas and were kept; scoreAtOver, timeAtOver: the score and
\* the elapsed time when gameOver() first ran; rehit: the collisions handled
\* for an entity that had had one handled before; order: the sub-steps the
\* tick ran, in the order it ran them; faultAt: the sub-step that is to throw,
\* thrown: it has thrown, logged: the catch block has logged it; drawn: what
\* render has put on the canvas, the player, the entities and the particles;
\* stepsAtOver: the difficulty steps applied when gameOver() first ran
NoProbe ==
    [handler |-> "none", from |-> "none", scoreBefore |-> -1,
     overCalls |-> 0, afterOver |-> 0, rehit |-> 0, order |-> <<>>,
     faultAt |-> "none", thrown |-> FALSE, logged |-> FALSE, frame |-> -1,
     drawn |-> [player |-> <<>>, objects |-> <<>>, particles |-> <<>>],
     spawned |-> 0, evicted |-> 0, collected |-> 0, steps |-> 0, late |-> 0,
     scoreAtOver |-> -1, timeAtOver |-> -1, stepsAtOver |-> -1]

NoUi == [finalScore |-> -1, finalTime |-> -1]

Begin(h) ==
    [g |-> game, u |-> ui,
     k |-> [NoProbe EXCEPT !.handler = h, !.from = game.gameState,
                           !.scoreBefore = IF h = "tick" THEN game.score ELSE -1,
                           !.frame = IF h = "tick" /\ probe.frame >= 0
                                     THEN 1 - probe.frame
                                     ELSE probe.frame]]

\* an entity at y, before it is moved, is further below a canvas of height h
\* than its own size
Low(y, h) == y > Px(h + ObjectSize)

\* Every entity carries hits, the collisions handled for it since it was
\* spawned: a history field, which the program does not hold and nothing in
\* the model reads but Rehit.
Hit(obj) == [obj EXCEPT !.hits = @ + 1]

Rehit(k, obj) == [k EXCEPT !.rehit = IF obj.hits > 0 THEN @ + 1 ELSE @]

\* the tick has come to the sub-step named; the sub-step that is to throw
\* throws as it is entered, and nothing runs after a throw but a catch block
At(s, step) ==
    IF s.k.thrown THEN s
    ELSE IF s.k.faultAt = step THEN [s EXCEPT !.k.thrown = TRUE]
    ELSE [s EXCEPT !.k.order = Append(@, step)]

\* what a sub-step makes of s, unless an earlier one has thrown
Ran(s, after) == IF s.k.thrown THEN s ELSE after

\* a render that moves the entities it draws
RenderMoving(s) ==
    IF s.k.thrown \/ s.g.gameState # "playing" THEN s
    ELSE IF variant = "pooled"
         THEN [s EXCEPT !.g.objectPool.active =
                            [i \in 1..Len(@) |-> [@[i] EXCEPT !.y = @ + 1]]]
         ELSE [s EXCEPT !.g.objects = [i \in 1..Len(@) |-> [@[i] EXCEPT !.y = @ + 1]]]

\* render(): the canvas after it.  The player and the entities are drawn
\* while playing only, the particles (fx and pooled) in every state; the
\* pooled variant draws the records whose active flag is set.  The starfield
\* is a function of the clock and is left out; nothing but the canvas is
\* written.
Render(s) ==
    IF s.k.thrown THEN s
    ELSE LET playing   == s.g.gameState = "playing"
             objects   == IF variant = "pooled"
                          THEN SelectSeq(s.g.objectPool.active, LAMBDA obj : obj.active)
                          ELSE s.g.objects
             particles == CASE variant = "fx"     -> s.g.particles
                            [] variant = "pooled" ->
                                   SelectSeq(s.g.particlePool.active, LAMBDA p : p.active)
                            [] OTHER              -> <<>>
         IN  [s EXCEPT !.k.drawn =
                 [player    |-> IF playing THEN <<s.g.playerX, s.g.playerY>> ELSE <<>>,
                  objects   |-> IF playing
                                THEN [i \in 1..Len(objects) |->
                                         <<objects[i].type, objects[i].x, objects[i].y>>]
                                ELSE <<>>,
                  particles |-> [i \in 1..Len(particles) |-> particles[i].life]]]

\* Every game carries scheduled, the gameLoop calls that are due: the call
\* that ends init(), then the callbacks requestAnimationFrame holds.
\* requestAnimationFrame(() => this.gameLoop())
Schedule(s) ==
    LET s1 == At(s, "schedule")
    IN  Ran(s1, [s1 EXCEPT !.g.scheduled = @ + 1])

\* the browser runs a callback it holds; a handler runs to its end before the
\* next starts, so a tick is one step
Fire(s) == [s EXCEPT !.g.scheduled = @ - 1]

----------------------------------------------------------------------------
(* The timer variant: src/game.js 1-322 *)

Timer_objectTypes ==
    [star     |-> [points |-> 50, harmful |-> FALSE, spawnChance |-> 40],
     asteroid |-> [points |-> 0,  harmful |-> TRUE,  spawnChance |-> 35],
     ufo      |-> [points |-> 0,  harmful |-> TRUE,  spawnChance |-> 25]]

Timer_constructor ==
    [gameState |-> "start", score |-> 0, gameTime |-> 0, gameSpeed |-> 10,
     lastSpeedIncrease |-> 0,
     playerX |-> Px(TimerCanvasWidth) \div 2,
     playerY |-> Px(TimerCanvasHeight - PlayerBottomOffset),
     objects |-> <<>>, objectSpawnTimer |-> 0, objectSpawnInterval |-> 1000,
     mouseX |-> Px(TimerCanvasWidth) \div 2,
     scheduled |-> 1]

\* handleMouseMove: ignored unless playing; the pointer is clamped
Timer_handleMouseMove(s, m) ==
    IF s.g.gameState # "playing" THEN s
    ELSE [s EXCEPT !.g.mouseX =
            Max(Px(PlayerSize) \div 2,
                Min(Px(TimerCanvasWidth) - Px(PlayerSize) \div 2, m))]

Timer_resetGame(s) ==
    [s EXCEPT !.g.score = 0, !.g.gameTime = 0, !.g.gameSpeed = 10,
              !.g.lastSpeedIncrease = 0, !.g.objects = <<>>,
              !.g.objectSpawnTimer = 0,
              !.g.playerX = Px(TimerCanvasWidth) \div 2,
              !.g.mouseX = Px(TimerCanvasWidth) \div 2]

\* a startGame that calls gameLoop() itself
Timer_startGameLooping(s) ==
    Schedule(Timer_resetGame([s EXCEPT !.g.gameState = "playing"]))

\* startScreen.classList.add('hidden')
Timer_startGame(s) == Timer_resetGame([s EXCEPT !.g.gameState = "playing"])

\* gameOverScreen.classList.add('hidden'): the panel's text is shown no more
Timer_restartGame(s) == Timer_startGame([s EXCEPT !.u = NoUi])

\* the first type, in key order, whose cumulative chance reaches the draw;
\* types[0] when none does
RECURSIVE Timer_selectFrom(_, _, _)
Timer_selectFrom(i, cumulative, random) ==
    IF i > Len(TypeOrder) THEN TypeOrder[1]
    ELSE LET c == cumulative + Timer_objectTypes[TypeOrder[i]].spawnChance
         IN  IF random <= c THEN TypeOrder[i]
             ELSE Timer_selectFrom(i + 1, c, random)

Timer_selectType(random) == Timer_selectFrom(1, 0, random)

\* r = [type, x, speed]: the three Math.random() draws of spawnObject
Timer_spawnObject(s, r) ==
    LET t   == Timer_selectType(r.type)
        obj == [x |-> (r.x * (TimerCanvasWidth - 40)) \div 10 + Px(20),
                y |-> Px(SpawnY),
                speed |-> (100 + r.speed) * s.g.gameSpeed,
                type |-> t,
                points |-> Timer_objectTypes[t].points,
                harmful |-> Timer_objectTypes[t].harmful,
                hits |-> 0]
    IN  [s EXCEPT !.g.objects = Append(@, obj), !.k.spawned = @ + 1]

RemoveAt(seq, i) == SubSeq(seq, 1, i - 1) \o SubSeq(seq, i + 1, Len(seq))

\* a scan that puts an entity that has left the canvas back at the top
RECURSIVE Timer_updateObjectsWrapping(_, _, _)
Timer_updateObjectsWrapping(s, i, deltaTime) ==
    IF i < 1 THEN s
    ELSE LET obj == s.g.objects[i]
             y2  == obj.y + (obj.speed * deltaTime) \div 1000
         IN  Timer_updateObjectsWrapping(
                 [s EXCEPT !.g.objects[i].y =
                               IF y2 > Px(TimerCanvasHeight + OffscreenMargin)
                               THEN Px(SpawnY) ELSE y2],
                 i - 1, deltaTime)

\* updateObjects: the reverse scan from index i (1-based) down to 1
RECURSIVE Timer_updateObjectsFrom(_, _, _)
Timer_updateObjectsFrom(s, i, deltaTime) ==
    IF i < 1 THEN s
    ELSE LET obj   == s.g.objects[i]
             y2    == obj.y + (obj.speed * deltaTime) \div 1000
             moved == [s EXCEPT !.g.objects[i].y = y2]
         IN  IF y2 > Px(TimerCanvasHeight + OffscreenMargin)
             THEN Timer_updateObjectsFrom(
                      [moved EXCEPT !.g.objects = RemoveAt(@, i), !.k.evicted = @ + 1],
                      i - 1, deltaTime)
             ELSE Timer_updateObjectsFrom(
                      [moved EXCEPT !.k.late = IF Low(obj.y, TimerCanvasHeight) THEN @ + 1 ELSE @],
                      i - 1, deltaTime)

Timer_updateObjects(s, deltaTime) ==
    Timer_updateObjectsFrom(s, Len(s.g.objects), deltaTime)

\* isColliding(player, obj): both rectangles taken from (x, y) rightwards/downwards
Timer_isColliding(px, py, obj) ==
    /\ px < obj.x + Px(ObjectSize)
    /\ px + Px(PlayerSize) > obj.x
    /\ py < obj.y + Px(ObjectSize)
    /\ py + Px(PlayerSize) > obj.y

Timer_gameOver(s) ==
    [s EXCEPT !.g.gameState = "gameOver",
              !.u.finalScore = s.g.score,
              !.u.finalTime = s.g.gameTime \div 1000,
              !.k.overCalls = @ + 1,
              !.k.scoreAtOver = s.g.score,
              !.k.stepsAtOver = s.k.steps,
              !.k.timeAtOver = s.g.gameTime]

\* a collision scan that scores a star and leaves it in play
RECURSIVE Timer_checkCollisionsKeeping(_, _)
Timer_checkCollisionsKeeping(s, i) ==
    IF i < 1 THEN s
    ELSE LET obj == s.g.objects[i]
         IN  IF Timer_isColliding(s.g.playerX, s.g.playerY, obj)
             THEN IF obj.harmful
                  THEN Timer_gameOver(s)
                  ELSE Timer_checkCollisionsKeeping(
                           [s EXCEPT !.g.score = @ + obj.points, !.k.collected = @ + 1],
                           i - 1)
             ELSE Timer_checkCollisionsKeeping(s, i - 1)

\* checkCollisions: the reverse scan from index i; a harmful hit returns
RECURSIVE Timer_checkCollisionsFrom(_, _)
Timer_checkCollisionsFrom(s, i) ==
    IF i < 1 THEN s
    ELSE LET obj == s.g.objects[i]
         IN  IF Timer_isColliding(s.g.playerX, s.g.playerY, obj)
             THEN IF obj.harmful
                  THEN Timer_gameOver([s EXCEPT !.g.objects[i] = Hit(@),
                                                !.k = Rehit(@, obj)])
                  ELSE Timer_checkCollisionsFrom(
                           [s EXCEPT !.g.score = @ + obj.points,
                                     !.g.objects = RemoveAt(@, i),
                                     !.k = Rehit([@ EXCEPT !.collected = @ + 1], obj)],
                           i - 1)
             ELSE Timer_checkCollisionsFrom(s, i - 1)

Timer_checkCollisions(s) == Timer_checkCollisionsFrom(s, Len(s.g.objects))

\* update: the speed level
Timer_speedLevel(s) ==
    LET currentSpeedLevel == s.g.gameTime \div DifficultyInterval
    IN  IF currentSpeedLevel > s.g.lastSpeedIncrease
        THEN [s EXCEPT !.g.gameSpeed = @ + 2,
                       !.g.lastSpeedIncrease = currentSpeedLevel,
                       !.k.steps = @ + 1]
        ELSE s

\* update: the spawn timer; 1000 / gameSpeed compared without dividing
Timer_spawnDue(s) ==
    s.g.objectSpawnTimer * s.g.gameSpeed >= s.g.objectSpawnInterval * 10

\* a spawn step that makes up for the intervals a long frame has spanned:
\* a second entity when the timer holds two intervals or more
Timer_spawnStepCatchingUp(s, r) ==
    IF Timer_spawnDue(s)
    THEN LET s1 == Timer_spawnObject(s, r)
         IN  [(IF s.g.objectSpawnTimer * s.g.gameSpeed >= 2 * s.g.objectSpawnInterval * 10
               THEN Timer_spawnObject(s1, r)
               ELSE s1) EXCEPT !.g.objectSpawnTimer = 0]
    ELSE s

Timer_spawnStep(s, r) ==
    IF Timer_spawnDue(s)
    THEN [Timer_spawnObject(s, r) EXCEPT !.g.objectSpawnTimer = 0]
    ELSE s

Timer_update(s, deltaTime, r) ==
    LET s0 == At([s EXCEPT !.g.gameTime = @ + deltaTime], "difficulty")
        s1 == At(Ran(s0, Timer_speedLevel(s0)), "player")
        s2 == At(Ran(s1, [s1 EXCEPT !.g.playerX = s1.g.mouseX]), "spawn")
        s3 == At(Ran(s2, Timer_spawnStep([s2 EXCEPT !.g.objectSpawnTimer = @ + deltaTime], r)),
                 "objects")
        s4 == At(Ran(s3, Timer_updateObjects(s3, deltaTime)), "collisions")
    IN  At(Ran(s4, Timer_checkCollisions(s4)), "ui")

\* a frame that updates in every state
Timer_gameLoopAlways(s, deltaTime, r) ==
    Schedule(Render(At(Timer_update(s, deltaTime, r), "render")))

\* gameLoop: update only while playing
Timer_gameLoop(s, deltaTime, r) ==
    Schedule(Render(At(IF s.g.gameState = "playing" THEN Timer_update(s, deltaTime, r) ELSE s,
                       "render")))

----------------------------------------------------------------------------
(* The canvas of the basic, pooled and fx variants: its size comes from the *)
(* page, which the repository does not hold                                 *)

CanvasWidth == 120
CanvasHeight == 78

\* x * 0.1, toward zero, in tenths of a pixel
Tenth(dx) == IF dx >= 0 THEN dx \div 10 ELSE -((-dx) \div 10)

ClampX(x) == Max(Px(PlayerSize) \div 2, Min(Px(CanvasWidth) - Px(PlayerSize) \div 2, x))

----------------------------------------------------------------------------
(* The basic variant: src/unnamed/part_000 *)

Basic_objectTypes ==
    [star     |-> [points |-> 50, deadly |-> FALSE],
     asteroid |-> [points |-> 0,  deadly |-> TRUE],
     ufo      |-> [points |-> 0,  deadly |-> TRUE]]

\* elapsed stands for Date.now() - startTime
Basic_constructor ==
    [gameState |-> "playing", score |-> 0, elapsed |-> 0, lastSpeedIncrease |-> 0,
     speedMultiplier |-> 10, spawnRate |-> 20,
     playerX |-> Px(CanvasWidth) \div 2,
     playerY |-> Px(CanvasHeight - PlayerBottomOffset),
     mouseX |-> Px(CanvasWidth) \div 2,
     objects |-> <<>>,
     scheduled |-> 1]

Basic_handleMouseMove(s, m) ==
    IF s.g.gameState # "playing" THEN s
    ELSE [s EXCEPT !.g.mouseX = ClampX(m)]

Basic_updatePlayer(s) ==
    IF s.g.gameState # "playing" THEN s
    ELSE [s EXCEPT !.g.playerX = ClampX(@ + Tenth(s.g.mouseX - @))]

\* a selection whose comparisons take the bound in: rand <= 0.4, rand <= 0.7
Basic_selectTypeInclusive(rand) ==
    IF rand <= 40 THEN "star" ELSE IF rand <= 70 THEN "asteroid" ELSE "ufo"

Basic_selectType(rand) ==
    IF rand < 40 THEN "star" ELSE IF rand < 70 THEN "asteroid" ELSE "ufo"

\* r = [spawn, type, x, speed]: the Math.random() draws of spawnObject
Basic_spawnObject(s, r) ==
    IF s.g.gameState # "playing" THEN s
    ELSE IF r.spawn * 10 < s.g.spawnRate
         THEN LET t   == Basic_selectType(r.type)
                  obj == [x |-> (r.x * (CanvasWidth - 40)) \div 10 + Px(20),
                          y |-> Px(SpawnY),
                          speed |-> ((300 + 2 * r.speed) * s.g.speedMultiplier) \div 100,
                          type |-> t,
                          points |-> Basic_objectTypes[t].points,
                          deadly |-> Basic_objectTypes[t].deadly,
                          hits |-> 0]
              IN  [s EXCEPT !.g.objects = Append(@, obj), !.k.spawned = @ + 1]
         ELSE s

Basic_checkCollision(px, py, obj) ==
    /\ px < obj.x + Px(ObjectSize)
    /\ px + Px(PlayerSize) > obj.x
    /\ py < obj.y + Px(ObjectSize)
    /\ py + Px(PlayerSize) > obj.y

Basic_gameOver(s) ==
    [s EXCEPT !.g.gameState = "gameOver",
              !.u.finalScore = s.g.score,
              !.k.overCalls = @ + 1,
              !.k.scoreAtOver = s.g.score,
              !.k.stepsAtOver = s.k.steps,
              !.k.timeAtOver = s.g.elapsed]

\* a scan that goes forward, for (i = 0; i < objects.length; i++), with the
\* same body
RECURSIVE Basic_forwardScan(_, _)
Basic_forwardScan(s, i) ==
    IF i > Len(s.g.objects) THEN s
    ELSE LET obj   == s.g.objects[i]
             y2    == obj.y + obj.speed
             moved == [s EXCEPT !.g.objects[i].y = y2]
         IN  IF y2 > Px(CanvasHeight + OffscreenMargin)
             THEN Basic_forwardScan(
                      [moved EXCEPT !.g.objects = RemoveAt(@, i), !.k.evicted = @ + 1],
                      i + 1)
             ELSE IF Basic_checkCollision(s.g.playerX, s.g.playerY, moved.g.objects[i])
                  THEN IF obj.deadly
                       THEN Basic_gameOver([moved EXCEPT !.g.objects[i] = Hit(@),
                                                         !.k = Rehit(@, obj)])
                       ELSE Basic_forwardScan(
                                [moved EXCEPT !.g.score = @ + obj.points,
                                              !.g.objects = RemoveAt(@, i),
                                              !.k = Rehit([@ EXCEPT !.collected = @ + 1], obj)],
                                i + 1)
                  ELSE Basic_forwardScan(moved, i + 1)

Basic_updateObjectsForward(s, i) == Basic_forwardScan(s, 1)

\* updateObjects: the reverse scan from index i; a deadly hit returns
RECURSIVE Basic_updateObjectsFrom(_, _)
Basic_updateObjectsFrom(s, i) ==
    IF i < 1 THEN s
    ELSE LET obj   == s.g.objects[i]
             y2    == obj.y + obj.speed
             moved == [s EXCEPT !.g.objects[i].y = y2]
         IN  IF y2 > Px(CanvasHeight + OffscreenMargin)
             THEN Basic_updateObjectsFrom(
                      [moved EXCEPT !.g.objects = RemoveAt(@, i), !.k.evicted = @ + 1],
                      i - 1)
             ELSE IF Basic_checkCollision(s.g.playerX, s.g.playerY, moved.g.objects[i])
                  THEN IF obj.deadly
                       THEN Basic_gameOver([moved EXCEPT !.g.objects[i] = Hit(@),
                                                         !.k = Rehit(@, obj)])
                       ELSE Basic_updateObjectsFrom(
                                [moved EXCEPT !.g.score = @ + obj.points,
                                              !.g.objects = RemoveAt(@, i),
                                              !.k = Rehit([@ EXCEPT !.collected = @ + 1], obj)],
                                i - 1)
                  ELSE Basic_updateObjectsFrom(
                           [moved EXCEPT !.k.late = IF Low(obj.y, CanvasHeight) THEN @ + 1 ELSE @],
                           i - 1)

Basic_updateObjects(s) ==
    IF s.g.gameState # "playing" THEN s
    ELSE Basic_updateObjectsFrom(s, Len(s.g.objects))

\* a difficulty step whose spawn rate has no cap
Basic_updateDifficultyUncapped(s) ==
    IF s.g.gameState # "playing" THEN s
    ELSE IF s.g.elapsed - s.g.lastSpeedIncrease >= DifficultyInterval
         THEN [s EXCEPT !.g.speedMultiplier = @ + 2,
                        !.g.spawnRate = @ + 5,
                        !.g.lastSpeedIncrease = s.g.elapsed,
                        !.k.steps = @ + 1]
         ELSE s

Basic_updateDifficulty(s) ==
    IF s.g.gameState # "playing" THEN s
    ELSE IF s.g.elapsed - s.g.lastSpeedIncrease >= DifficultyInterval
         THEN [s EXCEPT !.g.speedMultiplier = @ + 2,
                        !.g.spawnRate = Min(50, @ + 5),
                        !.g.lastSpeedIncrease = s.g.elapsed,
                        !.k.steps = @ + 1]
         ELSE s

Basic_restart(s) ==
    [s EXCEPT !.g = [Basic_constructor EXCEPT !.scheduled = s.g.scheduled], !.u = NoUi]

\* gameLoop: the catch block logs the error and schedules the next frame
Basic_catch(s) ==
    IF s.k.thrown
    THEN [s EXCEPT !.k.logged = TRUE, !.g.scheduled = @ + 1]
    ELSE s

\* gameLoop: one frame, d ms after the one before; Date.now() is read only
\* while playing
Basic_gameLoop(s, d, r) ==
    LET s0 == IF s.g.gameState = "playing" THEN [s EXCEPT !.g.elapsed = @ + d] ELSE s
        a1 == At(s0, "player")
        s1 == Ran(a1, Basic_updatePlayer(a1))
        a2 == At(s1, "spawn")
        s2 == Ran(a2, Basic_spawnObject(a2, r))
        a3 == At(s2, "objects")
        s3 == Ran(a3, Basic_updateObjects(a3))
        a4 == At(s3, "difficulty")
        s4 == Ran(a4, Basic_updateDifficulty(a4))
    IN  Basic_catch(Schedule(Render(At(At(s4, "ui"), "render"))))

----------------------------------------------------------------------------
(* The fx variant: src/unnamed/part_001 *)

Fx_objectTypes ==
    [star     |-> [points |-> 50, harmful |-> FALSE, weight |-> 40],
     asteroid |-> [points |-> 0,  harmful |-> TRUE,  weight |-> 35],
     ufo      |-> [points |-> 0,  harmful |-> TRUE,  weight |-> 25]]

\* a particle is held by its life and maxLife; position, velocity, colour
\* and size are drawn at random and read by the renderer only
Fx_constructor ==
    [gameState |-> "start", score |-> 0, gameTime |-> 0,
     currentSpeed |-> 20, speedMultiplier |-> 10, lastSpeedIncrease |-> 0,
     playerX |-> Px(CanvasWidth) \div 2,
     playerY |-> Px(CanvasHeight - PlayerBottomOffset),
     objects |-> <<>>, particles |-> <<>>,
     lastObjectSpawn |-> 0, objectSpawnRate |-> 1000,
     mouseX |-> Px(CanvasWidth) \div 2,
     scheduled |-> 1]

Fx_handleMouseMove(s, m) ==
    IF s.g.gameState = "playing" THEN [s EXCEPT !.g.mouseX = ClampX(m)] ELSE s

Fx_resetGameState(s) ==
    [s EXCEPT !.g.score = 0, !.g.gameTime = 0, !.g.currentSpeed = 20,
              !.g.speedMultiplier = 10, !.g.lastSpeedIncrease = 0,
              !.g.lastObjectSpawn = 0, !.g.objects = <<>>, !.g.particles = <<>>,
              !.g.playerX = Px(CanvasWidth) \div 2,
              !.g.mouseX = Px(CanvasWidth) \div 2]

\* startScreen.classList.add('hidden'): the game-over panel is not touched
Fx_startGame(s) == Fx_resetGameState([s EXCEPT !.g.gameState = "playing"])

Fx_restartGame(s) == Fx_resetGameState([s EXCEPT !.g.gameState = "playing", !.u = NoUi])

\* a Space handler that does not look at the state
Fx_keySpaceUnguarded(s) == Fx_restartGame(s)

\* keydown with code Space
Fx_keySpace(s) ==
    IF s.g.gameState = "start" THEN Fx_startGame(s)
    ELSE IF s.g.gameState = "gameOver" THEN Fx_restartGame(s)
    ELSE s

Particles(n, life) == [i \in 1..n |-> [life |-> life, maxLife |-> life]]

Fx_createSpeedUpEffect(s) == [s EXCEPT !.g.particles = @ \o Particles(20, 1000)]

\* an increaseDifficulty that makes spawns rarer
Fx_increaseDifficultyEasing(s) ==
    Fx_createSpeedUpEffect(
        [s EXCEPT !.g.speedMultiplier = @ + 2,
                  !.g.currentSpeed = 2 * (s.g.speedMultiplier + 2),
                  !.g.objectSpawnRate = @ + 50,
                  !.k.steps = @ + 1])

Fx_increaseDifficulty(s) ==
    Fx_createSpeedUpEffect(
        [s EXCEPT !.g.speedMultiplier = @ + 2,
                  !.g.currentSpeed = 2 * (s.g.speedMultiplier + 2),
                  !.g.objectSpawnRate = Max(500, @ - 50),
                  !.k.steps = @ + 1])

RECURSIVE Fx_selectFrom(_, _, _)
Fx_selectFrom(i, cumulativeWeight, rand) ==
    IF i > Len(TypeOrder) THEN "star"
    ELSE LET c == cumulativeWeight + Fx_objectTypes[TypeOrder[i]].weight
         IN  IF rand <= c THEN TypeOrder[i] ELSE Fx_selectFrom(i + 1, c, rand)

\* r = [type, x, speed]; rotation is read by the renderer only
Fx_spawnObject(s, r) ==
    LET obj == [x |-> (r.x * (CanvasWidth - 40)) \div 10 + Px(20),
                y |-> Px(SpawnY),
                type |-> Fx_selectFrom(1, 0, r.type),
                speed |-> s.g.currentSpeed + (2 * r.speed) \div 10,
                hits |-> 0]
    IN  [s EXCEPT !.g.objects = Append(@, obj), !.k.spawned = @ + 1]

\* a scan that moves the entities and drops none
RECURSIVE Fx_updateObjectsKeeping(_, _)
Fx_updateObjectsKeeping(s, i) ==
    IF i < 1 THEN s
    ELSE Fx_updateObjectsKeeping(
             [s EXCEPT !.g.objects[i].y = @ + s.g.objects[i].speed], i - 1)

RECURSIVE Fx_updateObjectsFrom(_, _)
Fx_updateObjectsFrom(s, i) ==
    IF i < 1 THEN s
    ELSE LET y2    == s.g.objects[i].y + s.g.objects[i].speed
             moved == [s EXCEPT !.g.objects[i].y = y2]
         IN  IF y2 > Px(CanvasHeight + OffscreenMargin)
             THEN Fx_updateObjectsFrom(
                      [moved EXCEPT !.g.objects = RemoveAt(@, i), !.k.evicted = @ + 1],
                      i - 1)
             ELSE Fx_updateObjectsFrom(
                      [moved EXCEPT !.k.late = IF Low(s.g.objects[i].y, CanvasHeight) THEN @ + 1 ELSE @],
                      i - 1)

Fx_updateObjects(s) == Fx_updateObjectsFrom(s, Len(s.g.objects))

\* an updateParticles that scores a point for every particle alive
Fx_updateParticlesScoring(s, deltaTime) ==
    LET aged == [i \in 1..Len(s.g.particles) |->
                    [s.g.particles[i] EXCEPT !.life = @ - deltaTime]]
    IN  [s EXCEPT !.g.particles = SelectSeq(aged, LAMBDA particle : particle.life > 0),
                  !.g.score = @ + Len(s.g.particles)]

\* updateParticles: the reverse scan ages every particle and splices out, each
\* at its own index, those whose life is spent
Fx_updateParticles(s, deltaTime) ==
    LET aged == [i \in 1..Len(s.g.particles) |->
                    [s.g.particles[i] EXCEPT !.life = @ - deltaTime]]
    IN  [s EXCEPT !.g.particles = SelectSeq(aged, LAMBDA particle : particle.life > 0)]

Fx_createExplosionEffect(s) == [s EXCEPT !.g.particles = @ \o Particles(30, 1500)]

Fx_createCollectionEffect(s) == [s EXCEPT !.g.particles = @ \o Particles(10, 800)]

Fx_gameOver(s) ==
    Fx_createExplosionEffect(
        [s EXCEPT !.g.gameState = "gameOver",
                  !.u.finalScore = s.g.score,
                  !.u.finalTime = s.g.gameTime \div 1000,
                  !.k.overCalls = @ + 1,
                  !.k.scoreAtOver = IF s.k.overCalls = 0 THEN s.g.score ELSE @,
                  !.k.stepsAtOver = IF s.k.overCalls = 0 THEN s.k.steps ELSE @,
                  !.k.timeAtOver = IF s.k.overCalls = 0 THEN s.g.gameTime ELSE @])

\* a handleCollision that scores a star and leaves it in play
Fx_handleCollisionKeeping(s, i) ==
    LET obj == s.g.objects[i]
        s1  == [s EXCEPT !.g.objects[i] = Hit(@), !.k = Rehit(@, obj)]
    IN  IF Fx_objectTypes[obj.type].harmful
        THEN Fx_gameOver(s1)
        ELSE Fx_createCollectionEffect(
                 [s1 EXCEPT !.g.score = @ + Fx_objectTypes[obj.type].points,
                            !.k.collected = @ + 1])

\* handleCollision(obj, index); afterOver counts the collisions handled once
\* gameOver has run in this scan
Fx_handleCollision(s, i) ==
    LET objConfig == Fx_objectTypes[s.g.objects[i].type]
        s1 == [s EXCEPT !.k = Rehit([@ EXCEPT !.afterOver = IF s.k.overCalls > 0 THEN @ + 1 ELSE @],
                                    s.g.objects[i])]
    IN  IF objConfig.harmful
        THEN Fx_gameOver([s1 EXCEPT !.g.objects[i] = Hit(@)])
        ELSE Fx_createCollectionEffect(
                 [s1 EXCEPT !.g.score = @ + objConfig.points,
                            !.g.objects = RemoveAt(@, i),
                            !.k.collected = @ + 1])

\* distance < minDistance, squared: (40 + 35) / 2 - 5 = 32.5 px
Fx_hit(px, py, obj) ==
    LET dx == px - obj.x
        dy == py - obj.y
        minDistance == (Px(PlayerSize) + Px(ObjectSize)) \div 2 - Px(5)
    IN  dx * dx + dy * dy < minDistance * minDistance

\* checkCollisions: the reverse scan from index i; nothing ends it early
RECURSIVE Fx_checkCollisionsFrom(_, _)
Fx_checkCollisionsFrom(s, i) ==
    IF i < 1 THEN s
    ELSE IF Fx_hit(s.g.playerX, s.g.playerY, s.g.objects[i])
         THEN Fx_checkCollisionsFrom(Fx_handleCollision(s, i), i - 1)
         ELSE Fx_checkCollisionsFrom(s, i - 1)

Fx_checkCollisions(s) == Fx_checkCollisionsFrom(s, Len(s.g.objects))

Fx_difficultyStep(s) ==
    IF s.g.gameTime - s.g.lastSpeedIncrease >= DifficultyInterval
    THEN [Fx_increaseDifficulty(s) EXCEPT !.g.lastSpeedIncrease = s.g.gameTime]
    ELSE s

\* objectSpawnRate / speedMultiplier compared without dividing
Fx_spawnStep(s, r) ==
    IF (s.g.gameTime - s.g.lastObjectSpawn) * s.g.speedMultiplier >= s.g.objectSpawnRate * 10
    THEN [Fx_spawnObject(s, r) EXCEPT !.g.lastObjectSpawn = s.g.gameTime]
    ELSE s

Fx_update(s, deltaTime, r) ==
    LET s0 == At([s EXCEPT !.g.gameTime = @ + deltaTime], "difficulty")
        s1 == At(Ran(s0, Fx_difficultyStep(s0)), "player")
        s2 == At(Ran(s1, [s1 EXCEPT !.g.playerX = @ + Tenth(s1.g.mouseX - @)]), "spawn")
        s3 == At(Ran(s2, Fx_spawnStep(s2, r)), "objects")
        s4 == At(Ran(s3, Fx_updateObjects(s3)), "particles")
        s5 == At(Ran(s4, Fx_updateParticles(s4, deltaTime)), "collisions")
    IN  At(Ran(s5, Fx_checkCollisions(s5)), "ui")

Fx_gameLoop(s, deltaTime, r) ==
    Schedule(Render(At(IF s.g.gameState = "playing" THEN Fx_update(s, deltaTime, r) ELSE s,
                       "render")))

----------------------------------------------------------------------------
(* ObjectPool: src/game.js 329-371.  The free objects are counted, not held: *)
(* the game assigns every field of an object it takes before reading it.     *)
(* An active object is known by its place in active.                         *)

ObjectPoolSize == 100
ParticlePoolSize == 200

\* what createFn makes, and what a free object is taken to hold
Object_create ==
    [x |-> 0, y |-> 0, type |-> "star", speed |-> 30, active |-> FALSE, hits |-> 0]

\* position, velocity, colour and size of a particle are read by the renderer only
Particle_create == [life |-> 1000, decay |-> 20, active |-> FALSE]

Pool_constructor(initialSize) == [pool |-> initialSize, active |-> <<>>]

\* get(): pool.pop() or createFn(); the object ends up last in active
Pool_get(p, obj) ==
    [p EXCEPT !.pool = IF @ > 0 THEN @ - 1 ELSE @,
              !.active = Append(@, obj)]

\* release(obj), obj being active[index]; index 0 is indexOf's -1
Pool_release(p, index) ==
    IF index > 0
    THEN [p EXCEPT !.active = RemoveAt(@, index), !.pool = @ + 1]
    ELSE p

RECURSIVE Pool_releaseAll(_)
Pool_releaseAll(p) ==
    IF Len(p.active) > 0 THEN Pool_releaseAll(Pool_release(p, 1)) ELSE p

----------------------------------------------------------------------------
(* The pooled variant: src/game.js 373-897 *)

Pooled_objectTypes ==
    [star     |-> [points |-> 50, dangerous |-> FALSE, weight |-> 40],
     asteroid |-> [points |-> 0,  dangerous |-> TRUE,  weight |-> 35],
     ufo      |-> [points |-> 0,  dangerous |-> TRUE,  weight |-> 25]]

\* elapsed stands for currentTime - startTime, which nothing reads before the
\* first startGame; highScore is what localStorage held, here nothing.
\* since: the time from the last frame to the last event after it; shift: what
\* has been added to startTime after the last frame
Pooled_constructor ==
    [gameState |-> "menu", score |-> 0, highScore |-> 0, elapsed |-> 0, level |-> 1,
     playerX |-> Px(CanvasWidth) \div 2,
     playerY |-> Px(CanvasHeight - PlayerBottomOffset),
     mouseX |-> Px(CanvasWidth) \div 2,
     currentSpeed |-> 30, spawnRate |-> 20, lastDifficultyIncrease |-> 0,
     objectPool |-> Pool_constructor(ObjectPoolSize),
     particlePool |-> Pool_constructor(ParticlePoolSize),
     scheduled |-> 1, since |-> 0, shift |-> 0]

\* mousemove / touchmove: the pointer is not clamped
Pooled_handleMouseMove(s, m) ==
    IF s.g.gameState = "playing" THEN [s EXCEPT !.g.mouseX = m] ELSE s

\* visibilitychange, the tab shown again a ms after the last frame (the
\* change to hidden before it only logs):
\* startTime += Date.now() - currentTime
Pooled_visibilityChange(s, a) ==
    IF s.g.gameState = "playing"
    THEN [s EXCEPT !.g.shift = @ + a, !.g.since = a]
    ELSE s

\* startGame: startTime = Date.now(); both panels are hidden
Pooled_startGame(s) ==
    [s EXCEPT !.g.gameState = "playing", !.g.score = 0, !.g.level = 1,
              !.g.elapsed = 0 - s.g.since, !.g.shift = 0,
              !.g.lastDifficultyIncrease = 0,
              !.g.currentSpeed = 30, !.g.spawnRate = 20,
              !.g.playerX = Px(CanvasWidth) \div 2,
              !.g.playerY = Px(CanvasHeight - PlayerBottomOffset),
              !.g.objectPool = Pool_releaseAll(@),
              !.g.particlePool = Pool_releaseAll(@),
              !.u = NoUi]

Pooled_restartGame(s) == Pooled_startGame(s)

Pooled_showStartScreen(s) == [s EXCEPT !.g.gameState = "menu", !.u = NoUi]

\* n particles taken from the pool, each given life 1 and the decay
RECURSIVE Pooled_emit(_, _, _)
Pooled_emit(pp, n, decay) ==
    IF n = 0 THEN pp
    ELSE LET p1 == Pool_get(pp, Particle_create)
             k  == Len(p1.active)
         IN  Pooled_emit([p1 EXCEPT !.active[k].life = 1000,
                                    !.active[k].decay = decay,
                                    !.active[k].active = TRUE],
                         n - 1, decay)

Pooled_createExplosion(s) == [s EXCEPT !.g.particlePool = Pooled_emit(@, 15, 20)]

Pooled_createCollectParticles(s) == [s EXCEPT !.g.particlePool = Pooled_emit(@, 8, 30)]

Pooled_createLevelUpEffect(s) == [s EXCEPT !.g.particlePool = Pooled_emit(@, 20, 15)]

\* a gameOver that stores the score of the round whatever the best score is
Pooled_gameOverOverwriting(s) ==
    Pooled_createExplosion(
        [s EXCEPT !.g.gameState = "gameOver",
                  !.g.highScore = s.g.score,
                  !.u.finalScore = s.g.score,
                  !.u.finalTime = s.g.elapsed \div 1000,
                  !.k.overCalls = @ + 1,
                  !.k.scoreAtOver = s.g.score,
                  !.k.stepsAtOver = s.k.steps,
                  !.k.timeAtOver = s.g.elapsed])

Pooled_gameOver(s) ==
    Pooled_createExplosion(
        [s EXCEPT !.g.gameState = "gameOver",
                  !.g.highScore = IF s.g.score > @ THEN s.g.score ELSE @,
                  !.u.finalScore = s.g.score,
                  !.u.finalTime = s.g.elapsed \div 1000,
                  !.k.overCalls = @ + 1,
                  !.k.scoreAtOver = s.g.score,
                  !.k.stepsAtOver = s.k.steps,
                  !.k.timeAtOver = s.g.elapsed])

\* an updatePlayer that follows the pointer and does not clamp
Pooled_updatePlayerFree(s) ==
    IF s.g.gameState # "playing" THEN s
    ELSE [s EXCEPT !.g.playerX = @ + Tenth(s.g.mouseX - @)]

Pooled_updatePlayer(s) ==
    IF s.g.gameState # "playing" THEN s
    ELSE [s EXCEPT !.g.playerX = ClampX(@ + Tenth(s.g.mouseX - @))]

RECURSIVE Pooled_selectFrom(_, _, _)
Pooled_selectFrom(i, cumulativeWeight, rand) ==
    IF i > Len(TypeOrder) THEN "star"
    ELSE LET c == cumulativeWeight + Pooled_objectTypes[TypeOrder[i]].weight
         IN  IF rand <= c THEN TypeOrder[i] ELSE Pooled_selectFrom(i + 1, c, rand)

\* spawnRate * (1 + level * 0.1), in ten-thousandths
Pooled_adjustedSpawnRate(s) == s.g.spawnRate * (10 + s.g.level)

\* a spawn that assigns position, type and speed and leaves the flag as
\* get() gave it
Pooled_assignUnflagged(object, currentSpeed, r) ==
    [object EXCEPT !.x = (r.x * (CanvasWidth - 40)) \div 10 + Px(20),
                   !.y = Px(SpawnY),
                   !.type = Pooled_selectFrom(1, 0, r.type),
                   !.speed = currentSpeed + (2 * r.speed) \div 10]

\* spawnObject: what it assigns to the object the pool gave it
Pooled_assign(object, currentSpeed, r) ==
    [object EXCEPT !.x = (r.x * (CanvasWidth - 40)) \div 10 + Px(20),
                   !.y = Px(SpawnY),
                   !.type = Pooled_selectFrom(1, 0, r.type),
                   !.speed = currentSpeed + (2 * r.speed) \div 10,
                   !.active = TRUE]

\* r = [spawn, type, x, speed]
Pooled_spawnObject(s, r) ==
    IF s.g.gameState # "playing" THEN s
    ELSE IF r.spawn * 100 < Pooled_adjustedSpawnRate(s)
         THEN LET p1 == Pool_get(s.g.objectPool, Object_create)
                  k  == Len(p1.active)
              IN  [s EXCEPT !.g.objectPool =
                                [p1 EXCEPT !.active[k] = Pooled_assign(@, s.g.currentSpeed, r)],
                            !.k.spawned = @ + 1]
         ELSE s

\* checkCollision: boxes centred on (x, y), each side drawn in by 5 px
Pooled_checkCollision(px, py, obj) ==
    LET padding == Px(5)
        ph == Px(PlayerSize) \div 2
        oh == Px(ObjectSize) \div 2
    IN  /\ px - ph + padding < obj.x + oh - padding
        /\ px + ph - padding > obj.x - oh + padding
        /\ py - ph + padding < obj.y + oh - padding
        /\ py + ph - padding > obj.y - oh + padding

\* updateObjects: the reverse scan of the snapshot of active from index i.
\* Only the object under the scan is released, so the i-th of the snapshot is
\* still the i-th of active when the scan reaches it.
RECURSIVE Pooled_updateObjectsFrom(_, _)
Pooled_updateObjectsFrom(s, i) ==
    IF i < 1 THEN s
    ELSE LET obj == s.g.objectPool.active[i]
         IN  IF ~obj.active
             THEN Pooled_updateObjectsFrom(s, i - 1)
             ELSE LET y2    == obj.y + obj.speed
                      moved == [s EXCEPT !.g.objectPool.active[i].y = y2]
                  IN  IF y2 > Px(CanvasHeight + OffscreenMargin)
                      THEN Pooled_updateObjectsFrom(
                               [moved EXCEPT !.g.objectPool = Pool_release(@, i),
                                             !.k.evicted = @ + 1],
                               i - 1)
                      ELSE IF Pooled_checkCollision(s.g.playerX, s.g.playerY,
                                                    moved.g.objectPool.active[i])
                           THEN IF Pooled_objectTypes[obj.type].dangerous
                                THEN Pooled_gameOver(
                                         [moved EXCEPT !.g.objectPool.active[i] = Hit(@),
                                                       !.k = Rehit(@, obj)])
                                ELSE Pooled_updateObjectsFrom(
                                         Pooled_createCollectParticles(
                                             [moved EXCEPT !.g.score = @ + Pooled_objectTypes[obj.type].points,
                                                           !.g.objectPool = Pool_release(@, i),
                                                           !.k = Rehit([@ EXCEPT !.collected = @ + 1], obj)]),
                                         i - 1)
                           ELSE Pooled_updateObjectsFrom(
                                    [moved EXCEPT !.k.late = IF Low(obj.y, CanvasHeight) THEN @ + 1 ELSE @],
                                    i - 1)

Pooled_updateObjects(s) ==
    IF s.g.gameState # "playing" THEN s
    ELSE Pooled_updateObjectsFrom(s, Len(s.g.objectPool.active))

\* an updateDifficulty without the test of the state
Pooled_updateDifficultyUnguarded(s) ==
    LET difficultyIncreases == s.g.elapsed \div DifficultyInterval
    IN  IF difficultyIncreases > s.g.lastDifficultyIncrease
        THEN Pooled_createLevelUpEffect(
                 [s EXCEPT !.g.lastDifficultyIncrease = difficultyIncreases,
                           !.g.level = difficultyIncreases + 1,
                           !.g.currentSpeed = 30 + difficultyIncreases * 5,
                           !.g.spawnRate = Min(50, 20 + difficultyIncreases * 5),
                           !.k.steps = @ + 1])
        ELSE s

Pooled_updateDifficulty(s) ==
    IF s.g.gameState # "playing" THEN s
    ELSE LET difficultyIncreases == s.g.elapsed \div DifficultyInterval
         IN  IF difficultyIncreases > s.g.lastDifficultyIncrease
             THEN Pooled_createLevelUpEffect(
                      [s EXCEPT !.g.lastDifficultyIncrease = difficultyIncreases,
                                !.g.level = difficultyIncreases + 1,
                                !.g.currentSpeed = 30 + difficultyIncreases * 5,
                                !.g.spawnRate = Min(50, 20 + difficultyIncreases * 5),
                                !.k.steps = @ + 1])
             ELSE s

\* updateParticles: the reverse scan of the snapshot of active ages every
\* particle and releases, each at its own place, those whose life is spent;
\* what is left is the aged particles still alive, in their order
Pooled_updateParticles(s) ==
    LET aged == [i \in 1..Len(s.g.particlePool.active) |->
                    LET particle == s.g.particlePool.active[i]
                    IN  IF particle.active
                        THEN [particle EXCEPT !.life = @ - particle.decay]
                        ELSE particle]
        kept == SelectSeq(aged, LAMBDA particle : ~particle.active \/ particle.life > 0)
    IN  [s EXCEPT !.g.particlePool.active = kept,
                  !.g.particlePool.pool = @ + Len(aged) - Len(kept)]

\* gameLoop: currentTime = Date.now(), d ms after the frame before
Pooled_gameLoop(s, d, r) ==
    LET s0 == [s EXCEPT !.g.elapsed = @ + d - s.g.shift, !.g.shift = 0, !.g.since = 0]
        a1 == At(s0, "player")
        s1 == Ran(a1, Pooled_updatePlayer(a1))
        a2 == At(s1, "spawn")
        s2 == Ran(a2, Pooled_spawnObject(a2, r))
        a3 == At(s2, "objects")
        s3 == Ran(a3, Pooled_updateObjects(a3))
        a4 == At(s3, "difficulty")
        s4 == Ran(a4, Pooled_updateDifficulty(a4))
        a5 == At(IF s0.g.gameState = "playing" THEN s4 ELSE s0, "particles")
        s5 == Ran(a5, Pooled_updateParticles(a5))
    IN  Schedule(At(Render(At(s5, "render")), "ui"))

----------------------------------------------------------------------------
(* Scenarios: the inputs a specification explores.  A scenario gives, for    *)
(* each variant, the frame deltas, the Math.random() draws, the pointer      *)
(* positions and the playing time explored.                                  *)

\* Math.random() for the type: a star, an asteroid, a ufo
TypeDraws == {10, 50, 90}

\* Math.random() for the spawn decision: below every spawn rate, above every one
SpawnDraws == {0, 99}

Draws(T, X, S) == [type : T, x : X, speed : S]

RandomDraws(T, X, S) == [spawn : SpawnDraws, type : T, x : X, speed : S]

\* the play scenario: entities of every type fall in the player's column, a
\* frame a second
Play ==
    [timer  |-> [maxTime |-> MaxPlayTime, maxObjects |-> MaxObjects, deltas |-> {1000},
                 draws |-> Draws(TypeDraws, {50}, {40, 80}),
                 pointers |-> {Px(400), Px(900)}],
     basic  |-> [maxTime |-> MaxPlayTime, maxObjects |-> MaxObjects, deltas |-> {1000},
                 draws |-> RandomDraws(TypeDraws, {50}, {0, 50}),
                 pointers |-> {Px(60), Px(130)}],
     pooled |-> [maxTime |-> MaxPlayTime, maxObjects |-> MaxObjects, deltas |-> {1000},
                 draws |-> RandomDraws(TypeDraws, {50}, {0, 50}),
                 pointers |-> {Px(60)}],
     fx     |-> [maxTime |-> MaxPlayTime, maxObjects |-> MaxObjects, deltas |-> {1000},
                 draws |-> Draws(TypeDraws, {50}, {0, 50}),
                 pointers |-> {Px(60)}]]

\* the pace scenario: long and uneven frames, as after a hidden tab, over many
\* difficulty intervals; stars and asteroids in the player's column
PaceDeltas == {10000, 25000}

Pace ==
    [timer  |-> [maxTime |-> MaxPaceTime, maxObjects |-> MaxObjects, deltas |-> PaceDeltas,
                 draws |-> Draws({10, 50}, {50}, {40}),
                 pointers |-> {Px(400)}],
     basic  |-> [maxTime |-> MaxPaceTime, maxObjects |-> MaxObjects, deltas |-> PaceDeltas,
                 draws |-> RandomDraws({10, 50}, {50}, {0}),
                 pointers |-> {Px(60)}],
     pooled |-> [maxTime |-> MaxPaceTime, maxObjects |-> MaxObjects, deltas |-> PaceDeltas,
                 draws |-> RandomDraws({50}, {50}, {0}),
                 pointers |-> {Px(60)}],
     fx     |-> [maxTime |-> MaxPaceTime, maxObjects |-> MaxObjects, deltas |-> PaceDeltas,
                 draws |-> Draws({10, 50}, {50}, {0}),
                 pointers |-> {Px(60)}]]

\* the fall scenario: short frames, stars in a column the player is not in,
\* followed until they leave the canvas
Fall ==
    [timer  |-> [maxTime |-> 5200, maxObjects |-> 6, deltas |-> {50},
                 draws |-> Draws({10}, {0}, {70}),
                 pointers |-> {Px(400)}],
     basic  |-> [maxTime |-> MaxFallTime, maxObjects |-> 1, deltas |-> {16},
                 draws |-> RandomDraws({10}, {0}, {0}),
                 pointers |-> {Px(60)}],
     pooled |-> [maxTime |-> MaxFallTime, maxObjects |-> 1, deltas |-> {16},
                 draws |-> RandomDraws({10}, {0}, {0}),
                 pointers |-> {Px(60)}],
     fx     |-> [maxTime |-> 2400, maxObjects |-> 2, deltas |-> {16},
                 draws |-> Draws({10}, {0}, {0}),
                 pointers |-> {Px(60)}]]

\* the brief scenario: two frames of play, stars and asteroids in the
\* player's column
Brief ==
    [timer  |-> [maxTime |-> 2000, maxObjects |-> 2, deltas |-> {1000},
                 draws |-> Draws({10, 50}, {50}, {40}),
                 pointers |-> {Px(400)}],
     basic  |-> [maxTime |-> 2000, maxObjects |-> 2, deltas |-> {1000},
                 draws |-> RandomDraws({10, 50}, {50}, {0}),
                 pointers |-> {Px(60)}],
     pooled |-> [maxTime |-> 2000, maxObjects |-> 2, deltas |-> {1000},
                 draws |-> RandomDraws({10, 50}, {50}, {0}),
                 pointers |-> {Px(60)}],
     fx     |-> [maxTime |-> 2000, maxObjects |-> 2, deltas |-> {1000},
                 draws |-> Draws({10, 50}, {50}, {0}),
                 pointers |-> {Px(60)}]]

\* the glow scenario: entities in the player's column; in the pooled variant
\* one asteroid at a time over 120 frames, so that the fifty frames that a
\* particle of decay 0.02 lives follow a collision
Glow ==
    [Brief EXCEPT !.fx = [maxTime |-> MaxPlayTime, maxObjects |-> MaxObjects, deltas |-> {1000},
                          draws |-> Draws(TypeDraws, {50}, {50}),
                          pointers |-> {Px(60)}],
                  !.pooled = [maxTime |-> 6000, maxObjects |-> 1, deltas |-> {50},
                              draws |-> RandomDraws({50}, {50}, {50}),
                              pointers |-> {Px(60)}]]

\* the tab scenario: as the brief one, with frames of 3 s and 5 s in the
\* pooled variant, over one difficulty interval, where nothing spawns, and
\* the tab shown again 2 s or 2.5 s after a frame, twice at most between two
\* frames
TabOffsets == {2000, 2500}

Tab ==
    [Brief EXCEPT !.pooled = [maxTime |-> 10000, maxObjects |-> 1, deltas |-> {3000, 5000},
                              draws |-> [spawn : {99}, type : {10}, x : {50}, speed : {0}],
                              pointers |-> {Px(60)}, maxShift |-> 4500]]

\* the steer scenario: six short frames in which nothing spawns, the pointer
\* in the middle of the canvas and far out on either side of it
Steer ==
    [timer  |-> [maxTime |-> 96, maxObjects |-> 0, deltas |-> {16},
                 draws |-> Draws({10}, {50}, {0}),
                 pointers |-> {Px(-100), Px(400), Px(900)}],
     basic  |-> [maxTime |-> 96, maxObjects |-> 0, deltas |-> {16},
                 draws |-> [spawn : {99}, type : {10}, x : {50}, speed : {0}],
                 pointers |-> {Px(-400), Px(60), Px(500)}],
     pooled |-> [maxTime |-> 96, maxObjects |-> 0, deltas |-> {16},
                 draws |-> [spawn : {99}, type : {10}, x : {50}, speed : {0}],
                 pointers |-> {Px(-400), Px(60), Px(500)}],
     fx     |-> [maxTime |-> 96, maxObjects |-> 0, deltas |-> {16},
                 draws |-> Draws({10}, {50}, {0}),
                 pointers |-> {Px(-400), Px(60), Px(500)}]]

\* the sub-steps of a tick that can be made to throw
FaultPoints == {"player", "spawn", "objects", "collisions", "difficulty", "ui", "render"}

----------------------------------------------------------------------------
(* The state machine *)

Commit(s) ==
    /\ game' = s.g
    /\ ui' = s.u
    /\ probe' = s.k

Here == [g |-> game, u |-> ui, k |-> probe]

Variants == {"timer", "basic", "pooled", "fx"}

Init ==
    /\ variant \in Variants
    /\ game = CASE variant = "timer"  -> Timer_constructor
                [] variant = "basic"  -> Basic_constructor
                [] variant = "pooled" -> Pooled_constructor
                [] variant = "fx"     -> Fx_constructor
    /\ ui = NoUi
    /\ probe = NoProbe

\* a handler entered with the sub-step f set to throw
Faulty(h, f) == [Begin(h) EXCEPT !.k.faultAt = f]

\* the entities in play
Objects == IF variant = "pooled" THEN game.objectPool.active ELSE game.objects

TimerTick(sc) ==
    /\ variant = "timer"
    /\ game.scheduled > 0
    /\ \E d \in sc.timer.deltas, r \in sc.timer.draws :
         /\ game.gameState = "playing" => game.gameTime + d <= sc.timer.maxTime
         /\ LET s == Timer_gameLoop(Fire(Begin("tick")), d, r)
            IN  /\ Len(s.g.objects) <= sc.timer.maxObjects
                /\ Commit(s)
    /\ UNCHANGED variant

TimerMouseMove(sc) ==
    /\ variant = "timer"
    /\ \E m \in sc.timer.pointers : game' = Timer_handleMouseMove(Here, m).g
    /\ UNCHANGED <<variant, ui, probe>>

TimerStartClick ==
    /\ variant = "timer"
    /\ Commit(Timer_startGame(Begin("start")))
    /\ UNCHANGED variant

TimerRestartClick ==
    /\ variant = "timer"
    /\ Commit(Timer_restartGame(Begin("restart")))
    /\ UNCHANGED variant

BasicTick(sc) ==
    /\ variant = "basic"
    /\ game.scheduled > 0
    /\ \E d \in sc.basic.deltas, r \in sc.basic.draws :
         /\ game.gameState = "playing" => game.elapsed + d <= sc.basic.maxTime
         /\ LET s == Basic_gameLoop(Fire(Begin("tick")), d, r)
            IN  /\ Len(s.g.objects) <= sc.basic.maxObjects
                /\ Commit(s)
    /\ UNCHANGED variant

BasicMouseMove(sc) ==
    /\ variant = "basic"
    /\ \E m \in sc.basic.pointers : game' = Basic_handleMouseMove(Here, m).g
    /\ UNCHANGED <<variant, ui, probe>>

BasicRestartClick ==
    /\ variant = "basic"
    /\ Commit(Basic_restart(Begin("restart")))
    /\ UNCHANGED variant

PooledTick(sc) ==
    /\ variant = "pooled"
    /\ game.scheduled > 0
    /\ \E d \in sc.pooled.deltas, r \in sc.pooled.draws :
         /\ game.elapsed + d - game.shift <= sc.pooled.maxTime
         /\ d >= game.since
         /\ LET s == Pooled_gameLoop(Fire(Begin("tick")), d, r)
            IN  /\ Len(s.g.objectPool.active) <= sc.pooled.maxObjects
                /\ Commit(s)
    /\ UNCHANGED variant

PooledMouseMove(sc) ==
    /\ variant = "pooled"
    /\ \E m \in sc.pooled.pointers : game' = Pooled_handleMouseMove(Here, m).g
    /\ UNCHANGED <<variant, ui, probe>>

\* the page's buttons call the global startGame / restartGame / showStartScreen
PooledStartClick ==
    /\ variant = "pooled"
    /\ Commit(Pooled_startGame(Begin("start")))
    /\ UNCHANGED variant

PooledRestartClick ==
    /\ variant = "pooled"
    /\ Commit(Pooled_restartGame(Begin("restart")))
    /\ UNCHANGED variant

PooledMenuClick ==
    /\ variant = "pooled"
    /\ Commit(Pooled_showStartScreen(Begin("menu")))
    /\ UNCHANGED variant

FxTick(sc) ==
    /\ variant = "fx"
    /\ game.scheduled > 0
    /\ \E d \in sc.fx.deltas, r \in sc.fx.draws :
         /\ game.gameState = "playing" => game.gameTime + d <= sc.fx.maxTime
         /\ LET s == Fx_gameLoop(Fire(Begin("tick")), d, r)
            IN  /\ Len(s.g.objects) <= sc.fx.maxObjects
                /\ Commit(s)
    /\ UNCHANGED variant

FxMouseMove(sc) ==
    /\ variant = "fx"
    /\ \E m \in sc.fx.pointers : game' = Fx_handleMouseMove(Here, m).g
    /\ UNCHANGED <<variant, ui, probe>>

FxStartClick ==
    /\ variant = "fx"
    /\ Commit(Fx_startGame(Begin("start")))
    /\ UNCHANGED variant

FxRestartClick ==
    /\ variant = "fx"
    /\ Commit(Fx_restartGame(Begin("restart")))
    /\ UNCHANGED variant

FxKeySpace ==
    /\ variant = "fx"
    /\ Commit(Fx_keySpace(Begin("key")))
    /\ UNCHANGED variant

\* a tick in which a sub-step throws
FaultyTick(sc) ==
    /\ game.scheduled > 0
    /\ \E f \in FaultPoints :
         LET s0 == Fire(Faulty("tick", f))
         IN  \E s \in
                 CASE variant = "timer" ->
                        {Timer_gameLoop(s0, d, r) : d \in sc.timer.deltas, r \in sc.timer.draws}
                   [] variant = "basic" ->
                        {Basic_gameLoop(s0, d, r) : d \in sc.basic.deltas, r \in sc.basic.draws}
                   [] variant = "pooled" ->
                        {Pooled_gameLoop(s0, d, r) : d \in sc.pooled.deltas, r \in sc.pooled.draws}
                   [] variant = "fx" ->
                        {Fx_gameLoop(s0, d, r) : d \in sc.fx.deltas, r \in sc.fx.draws} :
                 /\ s.k.thrown
                 /\ (IF variant \in {"timer", "fx"} THEN s.g.gameTime ELSE s.g.elapsed)
                        <= sc[variant].maxTime
                 /\ Commit(s)
    /\ UNCHANGED variant

\* the tab is hidden and shown again between two frames; the clock does not
\* go back, and the shifts explored are those up to maxShift that leave the
\* elapsed time above -maxTime
PooledTabShown(sc) ==
    /\ variant = "pooled"
    /\ \E a \in TabOffsets :
         /\ a >= game.since
         /\ game.shift + a <= sc.pooled.maxShift
         /\ game.elapsed - game.shift - a >= 0 - sc.pooled.maxTime
         /\ game' = Pooled_visibilityChange(Here, a).g
    /\ UNCHANGED <<variant, ui, probe>>

NextIn(sc) ==
    \/ TimerTick(sc)
    \/ TimerMouseMove(sc)
    \/ TimerStartClick
    \/ TimerRestartClick
    \/ BasicTick(sc)
    \/ BasicMouseMove(sc)
    \/ BasicRestartClick
    \/ PooledTick(sc)
    \/ PooledMouseMove(sc)
    \/ PooledStartClick
    \/ PooledRestartClick
    \/ PooledMenuClick
    \/ FxTick(sc)
    \/ FxMouseMove(sc)
    \/ FxStartClick
    \/ FxRestartClick
    \/ FxKeySpace

Next == NextIn(Play)

Spec == Init /\ [][Next]_vars

NextPace == NextIn(Pace)

SpecPace == Init /\ [][NextPace]_vars

NextFall == NextIn(Fall)

SpecFall == Init /\ [][NextFall]_vars

NextSteer == NextIn(Steer)

SpecSteer == Init /\ [][NextSteer]_vars

\* runs in which the tab is hidden and shown again
NextTab ==
    \/ NextIn(Tab)
    \/ PooledTabShown(Tab)

SpecTab == Init /\ [][NextTab]_vars

\* Runs in which the frames are counted: probe.frame is the parity of the
\* ticks run so far (lastTime = currentTime makes every frame a change of
\* state, also where the model's tick changes nothing else).
InitLive ==
    /\ variant \in Variants
    /\ game = CASE variant = "timer"  -> Timer_constructor
                [] variant = "basic"  -> Basic_constructor
                [] variant = "pooled" -> Pooled_constructor
                [] variant = "fx"     -> Fx_constructor
    /\ ui = NoUi
    /\ probe = [NoProbe EXCEPT !.frame = 0]

NextLive == NextIn(Glow)

SpecLive == InitLive /\ [][NextLive]_vars

----------------------------------------------------------------------------
(* Page load: the code that constructs the game, and what becomes of an      *)
(* exception the constructor throws (a missing element makes the first       *)
(* statements of every constructor throw, before any listener is wired and   *)
(* before gameLoop is called).  notice is what the user is shown.            *)

\* no game: nothing is scheduled and no listener is wired
Failed(notice) == [gameState |-> "failed", scheduled |-> 0, notice |-> notice]

\* src/game.js 306-322: the try block encloses addEventListener only; the
\* constructor runs later, in the DOMContentLoaded callback, where nothing
\* catches
Timer_load(throws) == IF throws THEN Failed("none") ELSE Timer_constructor

\* part_000 274-281: try / catch inside the callback; alert(...)
Basic_load(throws) == IF throws THEN Failed("alert") ELSE Basic_constructor

\* src/game.js 868-883: try / catch inside the load callback; alert(...)
Pooled_load(throws) == IF throws THEN Failed("alert") ELSE Pooled_constructor

\* part_001 429-462: the constructor runs inside the try block only when the
\* document is no longer loading as the script runs; the catch block appends
\* the error panel
Fx_load(readyState, throws) ==
    IF ~throws THEN Fx_constructor
    ELSE IF readyState = "loading" THEN Failed("none")
    ELSE Failed("panel")

\* the script has run and the game is not constructed yet
InitLoad ==
    /\ variant \in Variants
    /\ game \in [gameState : {"loading"}, scheduled : {0}, notice : {"none"},
                  readyState : {"loading", "interactive"}]
    /\ ui = NoUi
    /\ probe = NoProbe

\* the constructor is called; throws is whether it throws
PageLoad ==
    /\ game.gameState = "loading"
    /\ \E throws \in BOOLEAN :
         game' = CASE variant = "timer"  -> Timer_load(throws)
                   [] variant = "basic"  -> Basic_load(throws)
                   [] variant = "pooled" -> Pooled_load(throws)
                   [] variant = "fx"     -> Fx_load(game.readyState, throws)
    /\ probe' = [NoProbe EXCEPT !.handler = "load"]
    /\ UNCHANGED <<variant, ui>>

\* runs in which the constructor or a sub-step of a tick may throw
\* the constructor has returned: the listeners are wired
Constructed == game.gameState \notin {"loading", "failed"}

NextFault ==
    \/ PageLoad
    \/ Constructed /\ TimerTick(Brief)
    \/ Constructed /\ TimerMouseMove(Brief)
    \/ Constructed /\ TimerStartClick
    \/ Constructed /\ TimerRestartClick
    \/ Constructed /\ BasicTick(Brief)
    \/ Constructed /\ BasicMouseMove(Brief)
    \/ Constructed /\ BasicRestartClick
    \/ Constructed /\ PooledTick(Brief)
    \/ Constructed /\ PooledMouseMove(Brief)
    \/ Constructed /\ PooledStartClick
    \/ Constructed /\ PooledRestartClick
    \/ Constructed /\ PooledMenuClick
    \/ Constructed /\ FxTick(Brief)
    \/ Constructed /\ FxMouseMove(Brief)
    \/ Constructed /\ FxStartClick
    \/ Constructed /\ FxRestartClick
    \/ Constructed /\ FxKeySpace
    \/ Constructed /\ FaultyTick(Brief)

SpecFault == InitLoad /\ [][NextFault]_vars

----------------------------------------------------------------------------
(* The object pool with its records held: src/game.js 329-371, 423-447.      *)
(* A record is an object of the program; id stands for its reference.  The   *)
(* free list keeps what resetFn leaves in a record, so type and speed of a   *)
(* free record are those of its last use.  The pool is driven by the calls   *)
(* the game makes: spawnObject, the two releases of updateObjects and the    *)
(* releaseAll of startGame; which record collides is left open, the pool     *)
(* does not know the player.  A release of a record that is not active, which *)
(* the game does not make and the pool admits, is among the calls.           *)

\* records the pool is constructed with
PoolInitialSize == 2
\* records active at once (a spawn that would exceed it is not explored)
MaxPoolActive == 3

\* createFn(), as the object with reference id
Ref(id) == [id |-> id] @@ Object_create

\* resetFn(obj) of the object pool: type and speed are not touched
Object_reset(obj) == [obj EXCEPT !.active = FALSE, !.x = 0, !.y = 0]

ObjectPool_constructor(initialSize) ==
    [pool |-> [i \in 1..initialSize |-> Ref(i)], active |-> <<>>]

\* active.indexOf(obj), 1-based; 0 is indexOf's -1
IndexOf(seq, obj) ==
    IF \E i \in 1..Len(seq) : seq[i].id = obj.id
    THEN CHOOSE i \in 1..Len(seq) :
             /\ seq[i].id = obj.id
             /\ \A j \in 1..(i - 1) : seq[j].id # obj.id
    ELSE 0

\* the records the pool owns
Owned(p) == Len(p.pool) + Len(p.active)

\* a get that reads the last free record and leaves it on the free list
ObjectPool_getPeeking(p) ==
    IF Len(p.pool) > 0
    THEN [pool |-> p.pool, active |-> Append(p.active, p.pool[Len(p.pool)])]
    ELSE [pool |-> p.pool, active |-> Append(p.active, Ref(Owned(p) + 1))]

\* a get that creates a record whatever the free list holds
ObjectPool_getCreating(p) ==
    [pool |-> p.pool, active |-> Append(p.active, Ref(Owned(p) + 1))]

\* get(): pool.pop(), or createFn() giving a new reference
ObjectPool_get(p) ==
    IF Len(p.pool) > 0
    THEN [pool |-> SubSeq(p.pool, 1, Len(p.pool) - 1),
          active |-> Append(p.active, p.pool[Len(p.pool)])]
    ELSE [pool |-> p.pool, active |-> Append(p.active, Ref(Owned(p) + 1))]

\* a release that does not push the record back on the free list
ObjectPool_releaseDropping(p, obj) ==
    LET index == IndexOf(p.active, obj)
    IN  IF index > 0
        THEN [active |-> RemoveAt(p.active, index), pool |-> p.pool]
        ELSE p

\* a release that does not look the record up: it resets and pushes whatever
\* it is given
ObjectPool_releaseUnchecked(p, obj) ==
    LET index == IndexOf(p.active, obj)
    IN  [active |-> IF index > 0 THEN RemoveAt(p.active, index) ELSE p.active,
         pool |-> Append(p.pool, Object_reset(obj))]

\* release(obj)
ObjectPool_release(p, obj) ==
    LET index == IndexOf(p.active, obj)
    IN  IF index > 0
        THEN [active |-> RemoveAt(p.active, index),
              pool |-> Append(p.pool, Object_reset(p.active[index]))]
        ELSE p

\* a releaseAll with an if for the while: it releases the first active record
ObjectPool_releaseFirst(p) ==
    IF Len(p.active) > 0 THEN ObjectPool_release(p, p.active[1]) ELSE p

RECURSIVE ObjectPool_releaseAll(_)
ObjectPool_releaseAll(p) ==
    IF Len(p.active) > 0
    THEN ObjectPool_releaseAll(ObjectPool_release(p, p.active[1]))
    ELSE p

\* the inputs of the pool's run: a fast level, so that an entity crosses the
\* canvas in three frames; stars and ufos
PoolPlay ==
    [currentSpeed |-> 580, maxActive |-> MaxPoolActive,
     draws |-> [spawn : {0}, type : {10, 90}, x : {50}, speed : {0}]]

NoDraw == [spawn |-> -1, type |-> -1, x |-> -1, speed |-> -1]

\* what the last call did: draw, the draws of a spawn; stale, whether the
\* record get() gave differed from a newly created one
PoolProbe(h, r, stale) == [handler |-> h, draw |-> r, stale |-> stale]

InitPool ==
    /\ variant = "pool"
    /\ game = [objectPool |-> ObjectPool_constructor(PoolInitialSize),
               currentSpeed |-> PoolPlay.currentSpeed]
    /\ ui = NoUi
    /\ probe = PoolProbe("none", NoDraw, FALSE)

\* a spawn that puts the record get() gave into play as it is
PoolSpawnUnassigned ==
    /\ variant = "pool"
    /\ Len(game.objectPool.active) < PoolPlay.maxActive
    /\ \E r \in PoolPlay.draws :
         LET p1 == ObjectPool_get(game.objectPool)
             k  == Len(p1.active)
         IN  /\ game' = [game EXCEPT !.objectPool = [p1 EXCEPT !.active[k].active = TRUE]]
             /\ probe' = PoolProbe("spawn", r, p1.active[k] # Ref(p1.active[k].id))
    /\ UNCHANGED <<variant, ui>>

\* spawnObject, lines 606-616: get() and the assignments
PoolSpawn ==
    /\ variant = "pool"
    /\ Len(game.objectPool.active) < PoolPlay.maxActive
    /\ \E r \in PoolPlay.draws :
         LET p1     == ObjectPool_get(game.objectPool)
             k      == Len(p1.active)
             object == p1.active[k]
         IN  /\ game' = [game EXCEPT !.objectPool =
                            [p1 EXCEPT !.active[k] = Pooled_assign(object, game.currentSpeed, r)]]
             /\ probe' = PoolProbe("spawn", r, object # Ref(object.id))
    /\ UNCHANGED <<variant, ui>>

\* updateObjects, lines 628-636, for one active object: it moves and is
\* released once off-screen
PoolStep ==
    /\ variant = "pool"
    /\ \E i \in 1..Len(game.objectPool.active) :
         LET obj   == game.objectPool.active[i]
             moved == [game.objectPool EXCEPT !.active[i].y = @ + obj.speed]
         IN  game' = [game EXCEPT !.objectPool =
                         IF moved.active[i].y > Px(CanvasHeight + OffscreenMargin)
                         THEN ObjectPool_release(moved, moved.active[i])
                         ELSE moved]
    /\ probe' = PoolProbe("step", NoDraw, FALSE)
    /\ UNCHANGED <<variant, ui>>

\* updateObjects, line 648: the release of a collected object
PoolCollect ==
    /\ variant = "pool"
    /\ \E i \in 1..Len(game.objectPool.active) :
         /\ game.objectPool.active[i].type = "star"
         /\ game' = [game EXCEPT !.objectPool =
                        ObjectPool_release(@, game.objectPool.active[i])]
    /\ probe' = PoolProbe("collect", NoDraw, FALSE)
    /\ UNCHANGED <<variant, ui>>

\* startGame, line 533
PoolStart ==
    /\ variant = "pool"
    /\ game' = [game EXCEPT !.objectPool = ObjectPool_releaseAll(@)]
    /\ probe' = PoolProbe("start", NoDraw, FALSE)
    /\ UNCHANGED <<variant, ui>>

\* release(obj) of a record that is not active: one of the free list, or one
\* that this pool has never held
PoolReleaseAgain ==
    /\ variant = "pool"
    /\ \E obj \in {game.objectPool.pool[i] : i \in 1..Len(game.objectPool.pool)} \cup
                   {Ref(Owned(game.objectPool) + 1)} :
         game' = [game EXCEPT !.objectPool = ObjectPool_release(@, obj)]
    /\ probe' = PoolProbe("release", NoDraw, FALSE)
    /\ UNCHANGED <<variant, ui>>

NextPool ==
    \/ PoolSpawn
    \/ PoolStep
    \/ PoolCollect
    \/ PoolStart
    \/ PoolReleaseAgain

SpecPool == InitPool /\ [][NextPool]_vars

----------------------------------------------------------------------------
(* What the properties below speak of *)

Idle == {"start", "menu"}

\* the elapsed playing time of the round, in ms
Elapsed == IF variant \in {"timer", "fx"} THEN game.gameTime ELSE game.elapsed

\* the difficulty steps the round's parameters show
StepsShown ==
    CASE variant = "timer"  -> (game.gameSpeed - 10) \div 2
      [] variant = "basic"  -> (game.speedMultiplier - 10) \div 2
      [] variant = "fx"     -> (game.speedMultiplier - 10) \div 2
      [] variant = "pooled" -> game.level - 1

Height == IF variant = "timer" THEN TimerCanvasHeight ELSE CanvasHeight

\* the variant's hit test of a player at (px, py) against an entity
HitsAt(px, py, obj) ==
    CASE variant = "timer"  -> Timer_isColliding(px, py, obj)
      [] variant = "basic"  -> Basic_checkCollision(px, py, obj)
      [] variant = "pooled" -> Pooled_checkCollision(px, py, obj)
      [] variant = "fx"     -> Fx_hit(px, py, obj)

Hits(obj) == HitsAt(game.playerX, game.playerY, obj)

\* an entity moved by one frame of deltaTime ms
Advanced(obj, deltaTime) ==
    [obj EXCEPT !.y = @ + IF variant = "timer" THEN (obj.speed * deltaTime) \div 1000
                          ELSE obj.speed]

\* a moved entity that the pass drops: below the margin, or a star on the
\* player at (px, py)
Dropped(obj, px, py) ==
    \/ obj.y > Px(Height + OffscreenMargin)
    \/ obj.type = "star" /\ HitsAt(px, py, obj)

\* the state a round starts in; the pointer and the best score are not the
\* round's
FreshRound ==
    CASE variant = "timer"  -> [Timer_constructor EXCEPT !.gameState = "playing"]
      [] variant = "basic"  -> Basic_constructor
      [] variant = "pooled" -> [Pooled_constructor EXCEPT !.gameState = "playing",
                                                          !.highScore = game.highScore]
      [] variant = "fx"     -> [Fx_constructor EXCEPT !.gameState = "playing"]

Centred(g) == [g EXCEPT !.mouseX = g.playerX]

----------------------------------------------------------------------------
(* C1 *)

\* C1, as the code has it: gameState changes only to Playing by a start or
\* restart handler (from any state, Playing included) or by the Space key,
\* from Playing to GameOver by a tick in which gameOver() ran, and, in the
\* pooled variant, to the menu by showStartScreen from any state; a Space
\* key pressed while Playing changes neither state, score nor entities.
C1_TransitionsOfTheCode ==
    [][/\ game'.gameState # game.gameState =>
            \/ /\ game'.gameState = "playing"
               /\ probe'.handler \in {"start", "restart", "key"}
            \/ /\ game.gameState = "playing"
               /\ game'.gameState = "gameOver"
               /\ probe'.handler = "tick"
               /\ probe'.overCalls >= 1
            \/ /\ variant = "pooled"
               /\ game'.gameState = "menu"
               /\ probe'.handler = "menu"
       /\ (probe'.handler = "key" /\ game.gameState = "playing") =>
            /\ game'.gameState = "playing"
            /\ game'.score = game.score
            /\ Objects' = Objects]_vars

\* C1 witness: showStartScreen has taken a finished round back to the menu
C1_BackToMenu ==
    /\ variant = "pooled"
    /\ probe.handler = "menu"
    /\ probe.from = "gameOver"
    /\ game.gameState = "menu"

\* C1 as stated: the only changes are Start -> Playing, Playing -> GameOver and
\* GameOver -> Playing, and a start or restart while Playing changes nothing
C1_OnlyThreeTransitions ==
    [][/\ game'.gameState # game.gameState =>
            \/ game.gameState \in Idle /\ game'.gameState = "playing"
            \/ game.gameState = "playing" /\ game'.gameState = "gameOver"
            \/ game.gameState = "gameOver" /\ game'.gameState = "playing"
       /\ (probe'.handler \in {"start", "restart"} /\ game.gameState = "playing") =>
            /\ game'.score = game.score
            /\ Objects' = Objects]_vars

----------------------------------------------------------------------------
(* C2 *)

\* C2 as stated: a tick that starts in Playing does not lower the score, the
\* score does not change between two states that are not Playing, and once
\* gameOver() has run in a tick the score is what it was then
C2_ScoreMonotoneAndFrozen ==
    [][/\ (probe'.handler = "tick" /\ game.gameState = "playing") =>
            game'.score >= game.score
       /\ (game.gameState # "playing" /\ game'.gameState # "playing") =>
            game'.score = game.score
       /\ probe'.overCalls > 0 => game'.score = probe'.scoreAtOver]_vars

----------------------------------------------------------------------------
(* C3 *)

\* C3 as stated: a tick in which gameOver() ran ends in GameOver, ran it once,
\* and handled no collision after it
C3_FirstHarmfulHitEndsThePass ==
    probe.overCalls > 0 =>
        /\ game.gameState = "gameOver"
        /\ probe.overCalls = 1
        /\ probe.afterOver = 0

----------------------------------------------------------------------------
(* C4 *)

\* C4 as stated: the panel shows the score and the whole seconds of the moment
\* gameOver() first ran, and while the state is GameOver the score shown is
\* the session's score (the basic variant shows no time)
C4_FinalValuesCaptured ==
    /\ probe.overCalls > 0 =>
           /\ ui.finalScore = probe.scoreAtOver
           /\ variant # "basic" => ui.finalTime = probe.timeAtOver \div 1000
    /\ game.gameState = "gameOver" => ui.finalScore = game.score

----------------------------------------------------------------------------
(* C5 *)

\* C5: a tick that starts in Playing adds exactly 50 for every star its
\* collision pass found on the player; if the tick ends in Playing no star is
\* left on the player; and the state leaves Playing only if gameOver() ran
C5_StarCollected ==
    (probe.handler = "tick" /\ probe.from = "playing") =>
        /\ game.score = probe.scoreBefore + StarPoints * probe.collected
        /\ game.gameState = "playing" =>
               \A i \in 1..Len(Objects) : Objects[i].type = "star" => ~Hits(Objects[i])
        /\ probe.overCalls = 0 => game.gameState = "playing"

\* C5 witness: a tick collected a star and the round goes on
C5_AStarWasCollected ==
    /\ probe.handler = "tick"
    /\ probe.collected >= 1
    /\ game.gameState = "playing"
    /\ game.score >= StarPoints

----------------------------------------------------------------------------
(* C6 *)

\* C6 as stated: while Playing, the difficulty steps applied are the whole
\* 10,000 ms intervals elapsed
C6_OneStepPerInterval ==
    game.gameState = "playing" => StepsShown = Elapsed \div DifficultyInterval

----------------------------------------------------------------------------
(* C7 *)

\* C7: the spawn probability is at most 0.05, and it is 0.05 from the sixth
\* difficulty step on
C7_SpawnRateCapped ==
    variant \in {"basic", "pooled"} =>
        /\ game.spawnRate <= 50
        /\ StepsShown >= 6 => game.spawnRate = 50

\* C7 witness: a seventh step, which the cap cut, has been applied
C7_CapReached ==
    /\ variant \in {"basic", "pooled"}
    /\ StepsShown >= 7
    /\ game.spawnRate = 50

----------------------------------------------------------------------------
(* C8 *)

\* C8 as stated: after a restart from GameOver, and until the next tick, the
\* session is in the state a round starts in
C8_RestartRestoresEverything ==
    (probe.handler \in {"restart", "key"} /\ probe.from = "gameOver") =>
        Centred(game) = FreshRound

----------------------------------------------------------------------------
(* C9 *)

\* C9: a tick that finds the state not Playing adds no entity and leaves the
\* active set as it was
C9_NoSpawnUnlessPlaying ==
    [][(probe'.handler = "tick" /\ game.gameState # "playing") =>
           /\ probe'.spawned = 0
           /\ Objects' = Objects]_vars

\* C9 witness: a tick ran after the round had ended, with entities in play
C9_TickAfterGameOver ==
    /\ probe.handler = "tick"
    /\ probe.from = "gameOver"
    /\ Len(Objects) > 0

----------------------------------------------------------------------------
(* C10 *)

\* C10, as the code has it: the margin is 50 px, not the entity's size: no
\* active entity is further than 50 px below the canvas
C10_NoEntityBelowTheMargin ==
    \A i \in 1..Len(Objects) : Objects[i].y <= Px(Height + OffscreenMargin)

\* C10 witness: a tick dropped an entity that had fallen past the margin
C10_AnEntityWasDropped ==
    /\ probe.handler = "tick"
    /\ probe.evicted >= 1

\* C10 as stated: no tick keeps an entity that was already further below the
\* canvas than its own size (35 px)
C10_GoneAfterItsOwnSize == probe.late = 0

----------------------------------------------------------------------------
(* C11 *)

\* C11: no collision is handled for an entity that had one handled before:
\* every entity in play has had at most one, and none while the state is
\* Playing (a star is removed by its collision, a harmful entity ends the
\* round and is cleared by the reset that starts the next)
C11_OneResolutionPerEntity ==
    /\ probe.rehit = 0
    /\ \A i \in 1..Len(Objects) :
           /\ Objects[i].hits <= 1
           /\ game.gameState = "playing" => Objects[i].hits = 0

\* C11 witness: a tick has run after the round ended, with the entity that
\* ended it still in the active set
C11_HitEntityOutlivesItsTick ==
    /\ probe.handler = "tick"
    /\ probe.from = "gameOver"
    /\ \E i \in 1..Len(Objects) : Objects[i].hits = 1

----------------------------------------------------------------------------
(* C12 *)

\* C12: a record enters the active list only by a spawn, as the last of the
\* list, and it is then what the spawn makes of a newly created record: its
\* position, type and speed are those of the spawn's draws and nothing of
\* its earlier use is left; and every free record is inactive, at (0, 0)
C12_ReentryOnlyThroughSpawn ==
    [][LET Ids(seq) == {seq[i].id : i \in 1..Len(seq)}
       IN
       /\ \A i \in 1..Len(game'.objectPool.active) :
             LET obj == game'.objectPool.active[i]
             IN  obj.id \notin Ids(game.objectPool.active) =>
                     /\ probe'.handler = "spawn"
                     /\ i = Len(game'.objectPool.active)
                     /\ obj = Pooled_assign(Ref(obj.id), game.currentSpeed, probe'.draw)
       /\ \A j \in 1..Len(game'.objectPool.pool) :
             LET obj == game'.objectPool.pool[j]
             IN  ~obj.active /\ obj.x = 0 /\ obj.y = 0]_vars

\* C12 witness: a spawn was given a record that had been in play before and
\* still held the type or the speed of that use
C12_ARecordWasReused ==
    /\ variant = "pool"
    /\ probe.handler = "spawn"
    /\ probe.stale

----------------------------------------------------------------------------
(* C13 *)

\* C13 as stated: the sub-steps a tick in Playing ran came in the order
\* player motion, spawn, entity motion, collision resolution, difficulty
\* check, UI refresh, render (Rank is the place of a sub-step in that order;
\* the particle update has none)
C13_SubStepsInTheStatedOrder ==
    LET Rank(step) ==
            CASE step = "player"     -> 1
              [] step = "spawn"      -> 2
              [] step = "objects"    -> 3
              [] step = "collisions" -> 4
              [] step = "difficulty" -> 5
              [] step = "ui"         -> 6
              [] step = "render"     -> 7
              [] OTHER               -> 0
    IN  (probe.handler = "tick" /\ probe.from = "playing") =>
            \A i, j \in 1..Len(probe.order) :
                (i < j /\ Rank(probe.order[i]) > 0 /\ Rank(probe.order[j]) > 0) =>
                    Rank(probe.order[i]) < Rank(probe.order[j])

----------------------------------------------------------------------------
(* C14 *)

\* C14: between two handlers exactly one gameLoop call is due; a tick
\* schedules its successor once, as the last thing it does; a start,
\* restart, menu or key handler schedules none, and a pointer handler leaves
\* what is due as it is
C14_OneTickChain ==
    [][/\ game'.scheduled = 1
       /\ probe'.handler = "tick" =>
              /\ Len(probe'.order) > 0
              /\ \A i \in 1..Len(probe'.order) :
                     probe'.order[i] = "schedule" <=> i = Len(probe'.order)
       /\ probe'.handler # "tick" => probe'.order = <<>>
       /\ probe' = probe => game'.scheduled = game.scheduled]_vars

\* C14 witness: a tick has run in a round that followed a finished one, so
\* after a restart between two ticks
C14_TickAfterRestart ==
    /\ variant = "pooled"
    /\ probe.handler = "tick"
    /\ probe.from = "playing"
    /\ game.highScore > 0
    /\ game.scheduled = 1

----------------------------------------------------------------------------
(* C15 *)

\* C15 as stated: when a sub-step of a tick has thrown, the error has been
\* logged by the loop and the next gameLoop call is scheduled
C15_FaultLoggedAndLoopGoesOn ==
    probe.thrown =>
        /\ probe.logged
        /\ game.scheduled >= 1

----------------------------------------------------------------------------
(* C16 *)

\* C16 as stated: when the constructor has thrown, no gameLoop call is
\* scheduled and the user is shown an error notice
C16_FailedSetupIsReported ==
    game.gameState = "failed" =>
        /\ game.scheduled = 0
        /\ game.notice # "none"

----------------------------------------------------------------------------
(* C17 *)

\* (a step that leaves the pointer where it was and shows a tick is a tick)
\* C17, as the code has it: a pass that no harmful collision ends leaves
\* exactly the entities it found, each moved once, less those it evicted or
\* collected, in their order (the entity the tick spawned comes last); a
\* pass that a harmful collision ends has moved every entity it leaves once
\* or not at all
C17_PassVisitsEachEntityOnce ==
    [][(probe'.handler = "tick" /\ game.gameState = "playing"
                                  /\ game'.mouseX = game.mouseX) =>
           LET n     == Len(Objects') - probe'.spawned
               left  == SubSeq(Objects', 1, n)
               moved == [i \in 1..Len(Objects) |-> Advanced(Objects[i], Elapsed' - Elapsed)]
               kept  == SelectSeq(moved,
                                  LAMBDA obj : ~Dropped(obj, game'.playerX, game'.playerY))
           IN  IF probe'.overCalls = 0
               THEN left = kept
               ELSE \A i \in 1..n : \E j \in 1..Len(Objects) :
                        left[i] \in {Objects[j], moved[j], Hit(moved[j])}]_vars

\* C17 witness: a pass removed an entity, kept another that it had found,
\* and the round goes on
C17_RemovedWhileScanning ==
    /\ probe.handler = "tick"
    /\ probe.from = "playing"
    /\ probe.overCalls = 0
    /\ probe.collected + probe.evicted >= 1
    /\ Len(Objects) - probe.spawned >= 1

\* C17 as stated: every pass, one that a harmful collision ends included,
\* leaves exactly the entities it found, each moved once, less those that
\* are below the margin or are stars on the player
C17_NoEntitySkipped ==
    [][(probe'.handler = "tick" /\ game.gameState = "playing"
                                  /\ game'.mouseX = game.mouseX) =>
           LET n     == Len(Objects') - probe'.spawned
               left  == [i \in 1..n |-> [Objects'[i] EXCEPT !.hits = 0]]
               moved == [i \in 1..Len(Objects) |-> Advanced(Objects[i], Elapsed' - Elapsed)]
           IN  left = SelectSeq(moved,
                                LAMBDA obj : ~Dropped(obj, game'.playerX, game'.playerY))]_vars

----------------------------------------------------------------------------
(* C18 *)

\* the particles alive
ActiveParticles ==
    CASE variant = "fx"     -> game.particles
      [] variant = "pooled" -> game.particlePool.active
      [] OTHER              -> <<>>

\* C18 as stated, as the progress that makes it true: every tick, in
\* whichever game state, leaves no particle whose life is spent, and leaves
\* every particle it found either out or with less life than it had (a
\* particle of the tick's own making apart); lives are finite, so each
\* particle is out after finitely many ticks
C18_EveryTickAgesEveryParticle ==
    [][probe'.frame # probe.frame =>
           LET made == probe'.collected + probe'.overCalls + probe'.steps > 0
               Kind(particle) == IF variant = "fx" THEN particle.maxLife ELSE particle.decay
           IN  \A i \in 1..Len(ActiveParticles') :
                   LET particle == ActiveParticles'[i]
                   IN  /\ particle.life > 0
                       /\ \/ made
                          \/ \E j \in 1..Len(ActiveParticles) :
                                 /\ Kind(ActiveParticles[j]) = Kind(particle)
                                 /\ ActiveParticles[j].life > particle.life]_vars

----------------------------------------------------------------------------
(* C19 *)

\* C19: a tick from a state and the tick with the same frame time and draws
\* from that state without its particles end with the same game (state,
\* score, difficulty, player, entities, clock: every field but the
\* particles) and the same panel; so do two runs that differ in their
\* particles only, tick after tick
C19_ParticlesDoNotAffectLogic ==
    LET Bare(s) ==
            CASE variant = "fx"     -> [s EXCEPT !.g.particles = <<>>]
              [] variant = "pooled" ->
                     [s EXCEPT !.g.particlePool = Pool_constructor(ParticlePoolSize)]
              [] OTHER              -> s
        Logic(s) ==
            [g |-> [f \in DOMAIN s.g \ {"particles", "particlePool"} |-> s.g[f]],
             u |-> s.u]
        Loop(s, d, r) ==
            CASE variant = "timer"  -> Timer_gameLoop(s, d, r)
              [] variant = "basic"  -> Basic_gameLoop(s, d, r)
              [] variant = "pooled" -> Pooled_gameLoop(s, d, r)
              [] variant = "fx"     -> Fx_gameLoop(s, d, r)
    IN  \A d \in Play[variant].deltas, r \in Play[variant].draws :
            Logic(Loop(Begin("tick"), d, r)) = Logic(Loop(Bare(Begin("tick")), d, r))

\* C19 witness: a round is on with particles alive and entities in play
C19_ParticlesWhilePlaying ==
    /\ game.gameState = "playing"
    /\ Len(ActiveParticles) > 0
    /\ Len(Objects) > 0

----------------------------------------------------------------------------
(* C20 *)

\* what the variant raises with time, each so that more is harder: the speed
\* multiplier, the fall-speed baseline, the level, the spawn probability
\* (part_001 holds the spawn interval, which it shortens)
Difficulty ==
    CASE variant = "timer"  -> <<game.gameSpeed>>
      [] variant = "basic"  -> <<game.speedMultiplier, game.spawnRate>>
      [] variant = "pooled" -> <<game.level, game.currentSpeed, game.spawnRate>>
      [] variant = "fx"     -> <<game.speedMultiplier, game.currentSpeed,
                                 0 - game.objectSpawnRate>>

\* C20: a tick that starts and ends in Playing lowers none of the difficulty
\* parameters
C20_DifficultyNeverDecreases ==
    [][(probe'.handler = "tick" /\ game.gameState = "playing"
                                  /\ game'.gameState = "playing") =>
           \A i \in 1..Len(Difficulty) : Difficulty'[i] >= Difficulty[i]]_vars

\* C20 witness: a tick of a round that goes on has applied a difficulty
\* step, and not the first of the round
C20_SteppedWhilePlaying ==
    /\ probe.handler = "tick"
    /\ probe.from = "playing"
    /\ game.gameState = "playing"
    /\ probe.steps > 0
    /\ StepsShown >= 2

----------------------------------------------------------------------------
(* C21 *)

\* C21 as stated: a tick that starts and ends in Playing does not lower the
\* elapsed playing time, whatever tab events came between it and the tick
\* before
C21_ElapsedNeverDecreases ==
    [][(probe'.handler = "tick" /\ game.gameState = "playing"
                                  /\ game'.gameState = "playing") =>
           Elapsed' >= Elapsed]_vars

----------------------------------------------------------------------------
(* The collision test and the category selection as functions of their       *)
(* arguments: a player at the middle of a canvas, an entity at an offset     *)
(* from it, and a draw of Math.random()                                      *)

InitCalc ==
    /\ variant \in Variants
    /\ \E dx, dy \in {-400, -380, -360, -280, -270, 0, 270, 280, 360, 380, 400} :
       \E r \in {0, 10, 39, 40, 41, 70, 74, 75, 76, 99} :
           game = [gameState |-> "none",
                   playerX |-> Px(TimerCanvasWidth) \div 2,
                   playerY |-> Px(TimerCanvasHeight - PlayerBottomOffset),
                   obj |-> [x |-> Px(TimerCanvasWidth) \div 2 + dx,
                            y |-> Px(TimerCanvasHeight - PlayerBottomOffset) + dy],
                   rand |-> r]
    /\ ui = NoUi
    /\ probe = [handler |-> "none", hit |-> FALSE, type |-> "none"]

CalcCollision ==
    /\ probe.handler = "none"
    /\ probe' = [probe EXCEPT !.handler = "collision",
                              !.hit = HitsAt(game.playerX, game.playerY, game.obj)]
    /\ UNCHANGED <<variant, game, ui>>

CalcType ==
    /\ probe.handler = "none"
    /\ probe' = [probe EXCEPT !.handler = "type",
                              !.type = CASE variant = "timer"  -> Timer_selectType(game.rand)
                                         [] variant = "basic"  -> Basic_selectType(game.rand)
                                         [] variant = "pooled" -> Pooled_selectFrom(1, 0, game.rand)
                                         [] variant = "fx"     -> Fx_selectFrom(1, 0, game.rand)]
    /\ UNCHANGED <<variant, game, ui>>

NextCalc == CalcCollision \/ CalcType

SpecCalc == InitCalc /\ [][NextCalc]_vars

----------------------------------------------------------------------------
(* C22 *)

\* C22: in the timer, basic and pooled variants the collision test is true
\* exactly when the box of the player's size centred on the player and the box
\* of the entity's size centred on the entity, each shrunk by the padding
\* (5 px in the pooled variant, none in the others), overlap; so it is the
\* same for an entity at +d and at -d from the player
C22_CentredBoxesOverlap ==
    (probe.handler = "collision" /\ variant \in {"timer", "basic", "pooled"}) =>
        LET padding == IF variant = "pooled" THEN Px(5) ELSE 0
            reach   == (Px(PlayerSize) + Px(ObjectSize)) \div 2 - 2 * padding
            dx      == game.obj.x - game.playerX
            dy      == game.obj.y - game.playerY
            mirror  == [x |-> game.playerX - dx, y |-> game.playerY - dy]
        IN  /\ probe.hit = (dx < reach /\ -dx < reach /\ dy < reach /\ -dy < reach)
            /\ probe.hit = HitsAt(game.playerX, game.playerY, mirror)

----------------------------------------------------------------------------
(* C23 *)

\* C23, as the code has it: in the timer, pooled and fx variants the category
\* selected for a draw r is the first of star, asteroid, ufo whose cumulative
\* weight is at least r, and star when none is; in the basic variant it is
\* the first whose cumulative weight (0.4, 0.7, 1) is greater than r, and
\* ufo when none is
C23_FirstCategoryPastDraw ==
    probe.handler = "type" =>
        LET weight(t) == CASE variant = "timer"  -> Timer_objectTypes[t].spawnChance
                           [] variant = "pooled" -> Pooled_objectTypes[t].weight
                           [] variant = "fx"     -> Fx_objectTypes[t].weight
                           [] variant = "basic"  -> IF t = "star" THEN 40 ELSE 30
            cumulative(i) == IF i = 1 THEN weight(TypeOrder[1])
                             ELSE IF i = 2 THEN weight(TypeOrder[1]) + weight(TypeOrder[2])
                             ELSE weight(TypeOrder[1]) + weight(TypeOrder[2]) + weight(TypeOrder[3])
            reaches(i) == IF variant = "basic" THEN game.rand < cumulative(i)
                          ELSE game.rand <= cumulative(i)
            first == {i \in 1..3 : reaches(i) /\ \A j \in 1..(i - 1) : ~reaches(j)}
        IN  /\ \A i \in first : probe.type = TypeOrder[i]
            /\ first = {} => probe.type = IF variant = "basic" THEN "ufo" ELSE "star"

\* C23 witness: the basic variant has selected a category for a draw that is
\* equal to the cumulative weight of star
C23_DrawOnTheBound ==
    /\ probe.handler = "type"
    /\ variant = "basic"
    /\ game.rand = 40
    /\ probe.type = "asteroid"

\* C23 as stated: in every variant the category selected for a draw r is the
\* first of star, asteroid, ufo whose cumulative weight is at least r, and
\* star when none is
C23_FirstCategoryReachingDraw ==
    probe.handler = "type" =>
        LET weight(t) == CASE variant = "timer"  -> Timer_objectTypes[t].spawnChance
                           [] variant = "pooled" -> Pooled_objectTypes[t].weight
                           [] variant = "fx"     -> Fx_objectTypes[t].weight
                           [] variant = "basic"  -> IF t = "star" THEN 40 ELSE 30
            cumulative(i) == IF i = 1 THEN weight(TypeOrder[1])
                             ELSE IF i = 2 THEN weight(TypeOrder[1]) + weight(TypeOrder[2])
                             ELSE weight(TypeOrder[1]) + weight(TypeOrder[2]) + weight(TypeOrder[3])
            first == {i \in 1..3 : game.rand <= cumulative(i)
                                   /\ \A j \in 1..(i - 1) : game.rand > cumulative(j)}
        IN  /\ \A i \in first : probe.type = TypeOrder[i]
            /\ first = {} => probe.type = "star"

----------------------------------------------------------------------------
(* C24 *)

\* C24, as the code has it: the pool never holds fewer records, active plus
\* free, than it was constructed with, and holds more only as far as more
\* records have been active at once; the records it holds are the first
\* Owned references created, each once
C24_PoolNeverShrinks ==
    LET p   == game.objectPool
        ids == {p.pool[i].id : i \in 1..Len(p.pool)} \cup
               {p.active[i].id : i \in 1..Len(p.active)}
    IN  /\ Owned(p) >= PoolInitialSize
        /\ Owned(p) <= Max(PoolInitialSize, PoolPlay.maxActive)
        /\ ids = 1..Owned(p)

\* C24 witness: a get() on an empty free list has created a record, and
\* records have been released since
C24_PoolHasGrown ==
    /\ Owned(game.objectPool) > PoolInitialSize
    /\ Len(game.objectPool.pool) > 0
    /\ probe.handler \in {"step", "collect", "start"}

\* C24 as stated: after any sequence of get, release and releaseAll the pool
\* holds, active plus free, as many records as it was constructed with
C24_PoolIsFixedSize == Owned(game.objectPool) = PoolInitialSize

----------------------------------------------------------------------------
(* C25 *)

\* C25: in the pooled variant the best score changes only in a step that
\* ends the round, and only if the score of that round is greater, and is
\* then that score; in every other step it stays as it is.  So it never
\* decreases and is, after any number of rounds, the greatest of its first
\* value and the final scores.
C25_BestScoreIsTheMaximum ==
    [][variant = "pooled" =>
           IF game.gameState = "playing" /\ game'.gameState = "gameOver"
           THEN game'.highScore = Max(game.highScore, game'.score)
           ELSE game'.highScore = game.highScore]_vars

\* C25 witness: a round has ended with a score below the best score of the
\* rounds before it
C25_RoundBelowTheBest ==
    /\ variant = "pooled"
    /\ game.gameState = "gameOver"
    /\ probe.overCalls = 1
    /\ game.score < game.highScore

----------------------------------------------------------------------------
(* C26 *)

\* C26: render leaves the game as it found it: state, score, elapsed time,
\* difficulty, player and the entities and particles with their fields are
\* after render what they were before it, in every state a run reaches; and
\* what the last tick drew is what the game holds when the tick is over
C26_RenderLeavesTheGameAsItIs ==
    /\ Render(Here).g = game
    /\ Render(Here).u = ui
    /\ (probe.handler = "tick" /\ ~probe.thrown) => Render(Here).k.drawn = probe.drawn

\* C26 witness: a tick has drawn the player, an entity and a particle
C26_FrameDrawnWhilePlaying ==
    /\ probe.handler = "tick"
    /\ game.gameState = "playing"
    /\ probe.drawn.player # <<>>
    /\ Len(probe.drawn.objects) >= 1
    /\ Len(probe.drawn.particles) >= 1

----------------------------------------------------------------------------
(* C27 *)

\* C27: no step adds more than one entity to the entities in play, and no
\* tick spawns more than one, however long the frame: the frames of the pace
\* scenario take 10 s and 25 s, ten spawn intervals and more
C27_OneSpawnPerTick ==
    [][/\ Len(Objects') <= Len(Objects) + 1
       /\ probe'.spawned <= 1]_vars

\* C27 witness: a tick after a frame of 10 s or more has spawned an entity,
\* with another one in play
C27_SpawnedAfterALongFrame ==
    /\ probe.handler = "tick"
    /\ probe.from = "playing"
    /\ probe.spawned = 1
    /\ \A d \in PaceDeltas : d >= 10000 /\ Elapsed >= d
    /\ Len(Objects) >= 2

----------------------------------------------------------------------------
(* C28 *)

\* C28: while playing, the probability that the next tick compares with its
\* spawn draw (in ten-thousandths: spawnRate in the basic variant,
\* spawnRate * (1 + level * 0.1) in the pooled variant) is at most the cap
\* of 0.05, at every level
C28_ComparedProbabilityCapped ==
    (variant \in {"basic", "pooled"} /\ game.gameState = "playing") =>
        (IF variant = "pooled" THEN Pooled_adjustedSpawnRate(Here) ELSE game.spawnRate * 10) <= 500

----------------------------------------------------------------------------
(* C29 *)

\* C29: in the timer variant, when a tick that found the game playing is
\* over, gameSpeed is 1.0 + 0.2 * floor(gameTime / 10000), whatever the
\* frame deltas since the reset were
C29_SpeedFollowsGameTime ==
    (variant = "timer" /\ probe.handler = "tick" /\ probe.from = "playing") =>
        game.gameSpeed = 10 + 2 * (game.gameTime \div DifficultyInterval)

----------------------------------------------------------------------------
(* C30 *)

\* C30: in the pooled variant, when a tick that found the game playing has
\* made its difficulty check and the game is still playing, level is
\* floor(elapsed / 10000) + 1, currentSpeed is 3 + 0.5 * (level - 1) and
\* spawnRate is min(0.05, 0.02 + 0.005 * (level - 1))
C30_DifficultyFollowsElapsed ==
    (/\ variant = "pooled"
     /\ probe.handler = "tick"
     /\ probe.from = "playing"
     /\ game.gameState = "playing"
     /\ "difficulty" \in {probe.order[i] : i \in 1..Len(probe.order)}) =>
        /\ game.level = game.elapsed \div DifficultyInterval + 1
        /\ game.currentSpeed = 30 + 5 * (game.level - 1)
        /\ game.spawnRate = Min(50, 20 + 5 * (game.level - 1))

----------------------------------------------------------------------------
(* C31 *)

\* C31: no record is in the active list and in the free list, none occurs
\* twice in either, and the record a spawn has got from get() is no other
\* record of the active list
C31_NoRecordHeldTwice ==
    LET p   == game.objectPool
        all == p.pool \o p.active
        n   == Len(p.active)
    IN  /\ \A i, j \in 1..Len(all) : i # j => all[i].id # all[j].id
        /\ probe.handler = "spawn" => \A i \in 1..(n - 1) : p.active[i].id # p.active[n].id

\* C31 witness: a spawn has reused a released record while another record
\* is active and a third is free
C31_ReusedBesideOthers ==
    /\ probe.handler = "spawn"
    /\ probe.stale
    /\ Len(game.objectPool.active) >= 2
    /\ Len(game.objectPool.pool) >= 1

----------------------------------------------------------------------------
(* C32 *)

\* C32: the number of records the pool owns, active plus free, grows by one
\* in a spawn whose get() finds the free list empty and is the same after
\* every other step: a spawn that finds a free record, a release of an
\* off-screen or collected record, a releaseAll
C32_OwnedGrowsOnlyOnEmptyGet ==
    [][IF probe'.handler = "spawn" /\ Len(game.objectPool.pool) = 0
       THEN Owned(game'.objectPool) = Owned(game.objectPool) + 1
       ELSE Owned(game'.objectPool) = Owned(game.objectPool)]_vars

\* C32 witness: a pool that has grown has given a released record to a spawn
C32_GrownPoolReuses ==
    /\ probe.handler = "spawn"
    /\ probe.stale
    /\ Owned(game.objectPool) > PoolInitialSize

----------------------------------------------------------------------------
(* C33 *)

\* C33: a release of a record that is not active, be it free already or
\* unknown to the pool, leaves the active list, the free list and every
\* record as they were; so a second release of a record does nothing
C33_ReleaseOfInactiveIsNoOp ==
    [][probe'.handler = "release" => game' = game]_vars

\* C33 witness: a record that is not active has been released, with records
\* in the active list and in the free list
C33_ReleasedAgain ==
    /\ probe.handler = "release"
    /\ Len(game.objectPool.active) >= 1
    /\ Len(game.objectPool.pool) >= 1

----------------------------------------------------------------------------
(* C34 *)

\* C34: releaseAll comes to an end in every pool state, since each pass of
\* its loop, the release of the first active record, makes the active list
\* one shorter, whatever is left of the list; after it the active list is
\* empty and the free list is the one before followed by the records that
\* were active, each as resetFn leaves it
C34_ReleaseAllEmptiesActive ==
    [][probe'.handler = "start" =>
           LET p == game.objectPool
               n == Len(p.active)
           IN  /\ \A k \in 1..n :
                      LET q == [p EXCEPT !.active = SubSeq(p.active, k, n)]
                      IN  Len(ObjectPool_release(q, q.active[1]).active) = Len(q.active) - 1
               /\ game'.objectPool.active = <<>>
               /\ game'.objectPool.pool =
                      p.pool \o [i \in 1..n |-> Object_reset(p.active[i])]]_vars

\* C34 witness: releaseAll has released more records than the pool was
\* constructed with, a ufo among them
C34_AllReleased ==
    /\ probe.handler = "start"
    /\ game.objectPool.active = <<>>
    /\ Len(game.objectPool.pool) > PoolInitialSize
    /\ game.objectPool.pool[Len(game.objectPool.pool)].type = "ufo"

----------------------------------------------------------------------------
(* C35 *)

----------------------------------------------------------------------------
(* C36 *)

----------------------------------------------------------------------------
(* C37 *)

\* C37: a tick that finds the game playing and leaves it playing moves every
\* entity it found further down, and the entities it leaves, the spawned one
\* apart, are entities it found, moved, in their order, none of them further
\* down than the margin below the canvas.  An entity can therefore be active
\* for no more ticks than its way down takes: it is evicted or collected
\* after finitely many ticks of a game that stays playing.
C37_EveryEntityFallsOut ==
    [][(/\ probe'.handler = "tick"
        /\ game.gameState = "playing"
        /\ game'.gameState = "playing"
        /\ Elapsed' > Elapsed) =>
           LET n     == Len(Objects') - probe'.spawned
               left  == SubSeq(Objects', 1, n)
               moved == [j \in 1..Len(Objects) |-> Advanced(Objects[j], Elapsed' - Elapsed)]
           IN  /\ \A j \in 1..Len(Objects) : moved[j].y > Objects[j].y
               /\ left = SelectSeq(moved, LAMBDA obj : \E i \in 1..n : left[i] = obj)
               /\ \A i \in 1..n : left[i].y <= Px(Height + OffscreenMargin)]_vars

\* C37 witness: a tick of a game that goes on playing has evicted an entity
\* and moved another, which still falls
C37_OneOutOneFalling ==
    /\ probe.handler = "tick"
    /\ probe.from = "playing"
    /\ game.gameState = "playing"
    /\ probe.evicted >= 1
    /\ Len(Objects) - probe.spawned >= 1

----------------------------------------------------------------------------
(* C38 *)

\* C38: after every call the game makes to the object pool (spawnObject, the
\* releases of updateObjects, the releaseAll of startGame) every record of
\* the active list has its active flag set and every record of the free
\* list has it cleared; in the game, after every handler, every object and
\* every particle of an active list has its flag set.
C38_FlagsFollowTheLists ==
    /\ variant = "pool" =>
          LET p == game.objectPool
          IN  /\ \A i \in 1..Len(p.active) : p.active[i].active
              /\ \A i \in 1..Len(p.pool) : ~p.pool[i].active
    /\ variant = "pooled" =>
          /\ \A i \in 1..Len(game.objectPool.active) : game.objectPool.active[i].active
          /\ \A i \in 1..Len(game.particlePool.active) : game.particlePool.active[i].active

\* C38 witness: a record that has been in play lies on the free list while
\* another is in play
C38_UsedRecordFreeBesideActive ==
    /\ variant = "pool"
    /\ Len(game.objectPool.active) >= 1
    /\ \E i \in 1..Len(game.objectPool.pool) :
         /\ game.objectPool.pool[i].type = "ufo"
         /\ ~game.objectPool.pool[i].active

=============================================================================
